---- MODULE Spec2Model ----
(***************************************************************************)
(* Model of the job orchestration state machine of Ecro/SFP               *)
(* (src/src/services/videoJobOrchestrator.ts): the persisted video_jobs   *)
(* table, the in-memory activeJobs map, the deferred clean-up timers and  *)
(* every asynchronous run of createVideoJob, createVideoJobWithScript and *)
(* retryJob, one action per await point of the code.                      *)
(***************************************************************************)
EXTENDS Integers, Sequences, FiniteSets, TLC

\* ------------------------------------------------------------------ bounds
\* Number of orchestrator calls (runs) started in one behaviour.
MaxRuns == 2
\* Number of storage calls that reject in one behaviour.
MaxDbFailures == 1
\* Number of process restarts in one behaviour.
MaxRestarts == 1
\* Number of stage collaborator calls that reject in one behaviour.
MaxCollaboratorFailures == 1
\* Number of orchestrator calls in a behaviour of the fair specification.
FairRuns == 1
\* Number of orchestrator calls in a behaviour with housekeeping sweeps.
HousekeepingRuns == 1
\* Number of collectTrends calls in one behaviour.
MaxCollections == 2
\* Number of collectTrends calls made while one collection is running.
MaxRefused == 1
\* Number of POST /trigger/trends requests in one behaviour.
MaxApiCollections == 1
\* Number of keywords handed to analyzeKeywordTrends.
MaxKeywords == 3
\* Number of Google trends, and of Naver and of YouTube trends, handed to
\* aggregateMultiSourceTrends.
MaxGoogleTrends == 2
MaxYouTubeTrends == 1
\* Trends of each source handed in where the metrics vary.
MaxMetricsTrends == 1
MaxTrendsPerSource == 2
\* Length of the strings handed to normalizeKeyword.
MaxKeywordLength == 3

\* ------------------------------------------------------------- vocabulary
\* SQL NULL / JavaScript undefined.
NULL == "null"

\* config.customTopic as the callers of createVideoJob pass it:
\* the empty string (as falsy as an absent one), or a keyword.
CustomTopics == {"", "k1"}
\* Keywords TrendsService.discoverTrends can select.
DiscoveredTopics == {"k2"}

\* JavaScript truthiness of an optional string.
Truthy(s) == s # NULL /\ s # ""

\* The values a rejected collaborator promise can carry: an Error with a
\* message, an Error whose message is empty, and a value that is no Error.
ErrorValues ==
  { [isError |-> TRUE,  message |-> "boom"],
    [isError |-> TRUE,  message |-> ""],
    [isError |-> FALSE, message |-> "raw"] }
\* The Error a rejected storage call carries.
DbError == [isError |-> TRUE, message |-> "SQLITE_ERROR"]
NoError == [isError |-> FALSE, message |-> NULL]

\* error instanceof Error ? error.message : fallback
ErrorMessageOf(e, fallback) == IF e.isError THEN e.message ELSE fallback

\* The fallback text of the catch block of each entry point.
CatchFallback(kind) ==
  IF kind = "createVideoJobWithScript" THEN "Unknown error occurred"
  ELSE "Unknown error"

Stages ==
  <<"script_generation", "narration", "video_synthesis",
    "thumbnail_generation", "youtube_upload">>

\* A row of video_jobs, as videoJobModel.create inserts it.
NewJob(status, topic, script) ==
  [ status |-> status, topic |-> topic, script_text |-> script,
    narration_file_path |-> NULL, video_file_path |-> NULL,
    error_message |-> NULL, completed_at |-> NULL ]
NoJob == NewJob(NULL, NULL, NULL)

\* ---------------------------------------------------------------- trends
\* A TrendTopic: predictedViews as a number, volatility and competitiveness
\* in hundredths.
TrendTopic(keyword, source, views, volatility, competitiveness) ==
  [ keyword |-> keyword, source |-> source, predictedViews |-> views,
    volatility |-> volatility, competitiveness |-> competitiveness ]
\* selectedTopic: null
NoTopic == TrendTopic(NULL, NULL, 0, 0, 0)

\* What naverTrendsService.discoverTrendingKeywords resolves with: it catches
\* its own errors and then resolves with [].
NaverResults ==
  { <<>>, <<TrendTopic("nv1", "naver", 30, 10, 50)>> }
\* What youtubeTrendsService.getTrendingVideos resolves with ([] on its own
\* errors). extractMainKeyword gives "" for a title without a word of two
\* letters or more.
YouTubeResults ==
  { <<>>,
    <<TrendTopic("", "youtube", 50, 20, 40)>>,
    <<TrendTopic("yt1", "youtube", 20, 90, 10), TrendTopic("", "youtube", 60, 0, 0)>> }
\* rankedTopics.slice(0, 10)
TopCount == 10
\* One topic more than the slice keeps (getDynamicKeywords hands up to 30
\* keywords to analyzeKeywordTrends): the topics of the most predicted views
\* are steady and contested, the topic of the fewest is volatile and
\* uncontested.
CrowdedKeywords ==
  <<"cr01", "cr02", "cr03", "cr04", "cr05", "cr06", "cr07", "cr08", "cr09",
    "cr10", "cr11">>
CrowdedResult ==
  [ i \in 1..(TopCount + 1) |->
      IF i <= TopCount
      THEN TrendTopic(CrowdedKeywords[i], "google", 110 - i, 0, 100)
      ELSE TrendTopic(CrowdedKeywords[i], "google", 99, 100, 0) ]
\* What analyzeKeywordTrends resolves with: topics of non-empty keywords.
\* The finalScore of gg2 is that of nv1, 28; the list of two holds the topics
\* of the test 'should select topic with highest weighted score'.
GoogleResults ==
  { <<>>, <<TrendTopic("gg1", "google", 30, 0, 30)>>,
    <<TrendTopic("gg2", "google", 35, 10, 70)>>,
    <<TrendTopic("Low Views", "google", 1000, 20, 80),
      TrendTopic("High Views", "google", 5000, 60, 30)>>,
    CrowdedResult }
\* getFallbackTrendingTopics: the static list, its numbers randomly varied.
FallbackResults ==
  { <<TrendTopic("fb1", "google", 40, 30, 60), TrendTopic("fb2", "google", 40, 80, 20)>>,
    <<TrendTopic("fb1", "google", 80, 30, 60), TrendTopic("fb2", "google", 40, 80, 20)>> }

\* Array.prototype.sort with a descending comparator on keys: stable.
SortDescending(seq, keys) ==
  LET n == Len(seq)
      Position(i) ==
        1 + Cardinality({j \in 1..n :
              keys[j] > keys[i] \/ (keys[j] = keys[i] /\ j < i)})
  IN  [p \in 1..n |-> seq[CHOOSE i \in 1..n : Position(i) = p]]

\* rankTopics: drop the topics without a keyword, sort by predictedViews.
RankTopics(topics) ==
  LET kept == SelectSeq(topics, LAMBDA t : t.keyword # "")
  IN  SortDescending(kept, [i \in 1..Len(kept) |-> kept[i].predictedViews])

\* rankedTopics.slice(0, 10)
Top(topics) ==
  SubSeq(topics, 1, IF Len(topics) < TopCount THEN Len(topics) ELSE TopCount)

\* finalScore, times 100:
\* predictedViews * 0.6 + volatility * 100 * 0.25 + (1 - competitiveness) * 100 * 0.15
FinalScore(t) ==
  t.predictedViews * 60 + t.volatility * 25 + (100 - t.competitiveness) * 15

\* A selection that takes the first of the topics it is given.
SelectFirstTopic(topics) ==
  IF Len(topics) = 0 THEN NoTopic ELSE topics[1]

\* selectFinalTopic: null for no topics, else the topic of highest finalScore.
SelectFinalTopic(topics) ==
  IF Len(topics) = 0 THEN NoTopic
  ELSE SortDescending(topics, [i \in 1..Len(topics) |-> FinalScore(topics[i])])[1]

\* A collectTrends call: its locals, and what it has done so far (started and
\* fetched: the sources whose fetch was started / has settled; observed: how
\* many topics the sources returned; refused: how many collectTrends calls
\* made during this one returned null at once).
NewCollector(pc, isRunning, count) ==
  [ pc |-> pc, isRunning |-> isRunning, count |-> count, trendRunId |-> 0,
    allTopics |-> <<>>, started |-> {}, fetched |-> {},
    observed |-> 0, topics |-> <<>>, selectedTopic |-> NoTopic,
    stored |-> 0, alerted |-> FALSE, refused |-> 0 ]
IdleCollector == NewCollector("idle", FALSE, 0)

\* An analyzeKeywordTrends call over n keywords: the index i of the loop
\* (from 1), the await it is at, the topics pushed, and the history of
\* interest requests and delays with the outcome of each request.
NewAnalysis(n, pc, events) ==
  [ n |-> n, i |-> 1, pc |-> pc, topics |-> 0, events |-> events,
    outcomes |-> <<>> ]
NoAnalysis == NewAnalysis(0, "idle", <<>>)

\* What one googleTrends.interestOverTime call can lead to: a response that
\* starts with '<', an empty timeline, a timeline of average interest at most
\* 20, one above 20, or a rejected call / unparsable response.
InterestOutcomes == {"html", "empty", "low", "high", "error"}

\* --------------------------------------------------------------- numbers
\* The numbers of the aggregation are IEEE 754 doubles. A natural number of
\* any size is a sequence of digits in base 2^15, lowest first, without
\* leading zeros.
DigitBits == 3 * 5
Base == 2^DigitBits
RECURSIVE TrimBig(_)
TrimBig(n) ==
  IF Len(n) > 0 /\ n[Len(n)] = 0 THEN TrimBig(SubSeq(n, 1, Len(n) - 1)) ELSE n
RECURSIVE BigOf(_)
BigOf(k) == IF k = 0 THEN <<>> ELSE <<k % Base>> \o BigOf(k \div Base)
Digit(n, i) == IF i <= Len(n) THEN n[i] ELSE 0
RECURSIVE AddBigFrom(_, _, _, _)
AddBigFrom(a, b, i, carry) ==
  IF i > Len(a) /\ i > Len(b) THEN BigOf(carry)
  ELSE LET sum == Digit(a, i) + Digit(b, i) + carry
       IN  <<sum % Base>> \o AddBigFrom(a, b, i + 1, sum \div Base)
AddBig(a, b) == AddBigFrom(a, b, 1, 0)
\* a - b, for a >= b.
RECURSIVE SubBigFrom(_, _, _, _)
SubBigFrom(a, b, i, borrow) ==
  IF i > Len(a) THEN <<>>
  ELSE LET difference == Digit(a, i) - Digit(b, i) - borrow
       IN  <<difference % Base>> \o
             SubBigFrom(a, b, i + 1, IF difference < 0 THEN 1 ELSE 0)
SubBig(a, b) == TrimBig(SubBigFrom(a, b, 1, 0))
LessBig(a, b) ==
  IF Len(a) # Len(b) THEN Len(a) < Len(b)
  ELSE \E i \in 1..Len(a) :
         a[i] < b[i] /\ \A j \in (i + 1)..Len(a) : a[j] = b[j]
\* a * d + carry, for d <= Base and carry < Base.
RECURSIVE TimesDigit(_, _, _, _)
TimesDigit(a, d, i, carry) ==
  IF i > Len(a) THEN BigOf(carry)
  ELSE LET product == a[i] * d + carry
       IN  <<product % Base>> \o TimesDigit(a, d, i + 1, product \div Base)
RECURSIVE MulBigFrom(_, _, _)
MulBigFrom(a, b, i) ==
  IF i > Len(b) THEN <<>>
  ELSE AddBig(TrimBig([k \in 1..(i - 1) |-> 0] \o TimesDigit(a, b[i], 1, 0)),
              MulBigFrom(a, b, i + 1))
MulBig(a, b) == MulBigFrom(a, b, 1)
\* n * 2^k and n \div 2^k
ShiftLeftBig(n, k) ==
  IF Len(n) = 0 THEN n
  ELSE [i \in 1..(k \div DigitBits) |-> 0]
         \o TrimBig(TimesDigit(n, 2^(k % DigitBits), 1, 0))
ShiftRightBig(n, k) ==
  LET bits == k % DigitBits
      rest == SubSeq(n, (k \div DigitBits) + 1, Len(n))
  IN  TrimBig([i \in 1..Len(rest) |->
                 (rest[i] \div 2^bits)
                   + (Digit(rest, i + 1) % 2^bits) * 2^(DigitBits - bits)])
\* The number of bits of n, and bit i of n (from 1, the lowest).
BitLength(n) ==
  IF Len(n) = 0 THEN 0
  ELSE DigitBits * (Len(n) - 1)
         + (CHOOSE k \in 1..DigitBits : 2^(k - 1) <= n[Len(n)] /\ n[Len(n)] < 2^k)
TestBit(n, i) ==
  (Digit(n, ((i - 1) \div DigitBits) + 1) \div 2^((i - 1) % DigitBits)) % 2
\* Long division of a by d # 0, from the highest bit of a, the bits of one
\* digit at a time: quotient q and remainder r.
RECURSIVE DivBigBits(_, _, _, _, _)
DivBigBits(a, d, i, stop, s) ==
  IF i = stop \/ Len(s.q) < 0 THEN s
  ELSE LET shifted == TimesDigit(s.r, 2, 1, TestBit(a, i))
           less == LessBig(shifted, d)
       IN  DivBigBits(a, d, i - 1, stop,
             [ q |-> TimesDigit(s.q, 2, 1, IF less THEN 0 ELSE 1),
               r |-> IF less THEN shifted ELSE SubBig(shifted, d) ])
RECURSIVE DivBigFrom(_, _, _, _)
DivBigFrom(a, d, i, s) ==
  IF i = 0 \/ Len(s.q) < 0 THEN s
  ELSE LET stop == IF i > DigitBits THEN i - DigitBits ELSE 0
       IN  DivBigFrom(a, d, stop, DivBigBits(a, d, i, stop, s))
DivBig(a, d) == DivBigFrom(a, d, BitLength(a), [q |-> <<>>, r |-> <<>>])

\* A double that is not negative: m * 2^e, with m of exactly 53 bits (or
\* m = 0). The values in use are far from the ends of the exponent range.
MantissaBits == 52 + 1
Zero == [m |-> <<>>, e |-> 0]
\* The double nearest to n * 2^e, ties to even.
RoundBig(n, e) ==
  LET length == BitLength(n)
      k == length - MantissaBits
      kept == ShiftRightBig(n, k)
      up == /\ TestBit(n, k) = 1
            /\ \/ \E i \in 1..(k - 1) : TestBit(n, i) = 1
               \/ TestBit(kept, 1) = 1
      rounded == IF up THEN AddBig(kept, <<1>>) ELSE kept
  IN  IF length = 0 THEN Zero
      ELSE IF length <= MantissaBits
      THEN [m |-> ShiftLeftBig(n, MantissaBits - length),
            e |-> e - (MantissaBits - length)]
      ELSE IF BitLength(rounded) > MantissaBits
      THEN [m |-> ShiftRightBig(rounded, 1), e |-> e + k + 1]
      ELSE [m |-> rounded, e |-> e + k]
\* The double of a natural number.
DoubleOf(n) == RoundBig(BigOf(n), 0)
\* a * b
DoubleMultiply(a, b) == RoundBig(MulBig(a.m, b.m), a.e + b.e)
\* a + b
DoubleAdd(a, b) ==
  IF Len(a.m) = 0 THEN b
  ELSE IF Len(b.m) = 0 THEN a
  ELSE LET e == IF a.e < b.e THEN a.e ELSE b.e
       IN  RoundBig(AddBig(ShiftLeftBig(a.m, a.e - e),
                           ShiftLeftBig(b.m, b.e - e)), e)
\* a < b
DoubleLess(a, b) ==
  IF Len(b.m) = 0 THEN FALSE
  ELSE IF Len(a.m) = 0 THEN TRUE
  ELSE a.e < b.e \/ (a.e = b.e /\ LessBig(a.m, b.m))
\* a - b, for a >= b.
DoubleSubtract(a, b) ==
  IF Len(b.m) = 0 THEN a
  ELSE LET e == IF a.e < b.e THEN a.e ELSE b.e
       IN  RoundBig(SubBig(ShiftLeftBig(a.m, a.e - e),
                           ShiftLeftBig(b.m, b.e - e)), e)
\* a / b, for b # 0: three more quotient bits than a mantissa holds, and one
\* bit that tells whether the division left a remainder.
DoubleDivide(a, b) ==
  IF Len(a.m) = 0 THEN Zero
  ELSE LET division == DivBig(ShiftLeftBig(a.m, MantissaBits + 3), b.m)
           sticky == IF Len(division.r) = 0 THEN 0 ELSE 1
       IN  RoundBig(TimesDigit(division.q, 2, 1, sticky),
                    a.e - b.e - (MantissaBits + 4))
\* The double a decimal literal n / d (such as 1.2 = 12 / 10) stands for.
Literal(n, d) == DoubleDivide(DoubleOf(n), DoubleOf(d))

\* ------------------------------------------------------------------ state
VARIABLES
  jobs,         \* video_jobs table: sequence of rows, row id = index
  activeJobs,   \* VideoJobOrchestrator.activeJobs: jobId -> JobProgress
  timers,       \* job ids with a pending setTimeout(delete, 60000)
  runs,         \* the calls of the orchestrator's entry points, in start order
  runLimit,     \* how many calls the callers make in this behaviour
  trendRuns,    \* number of rows of trend_runs
  dbFailures,   \* storage calls rejected so far
  restarts,     \* process restarts so far
  collabFailures, \* stage collaborator calls rejected so far
  calls,        \* history: per job, the stage collaborator calls in order
  statusLog,    \* history: per job, the status values persisted in order
  progressLog,  \* history: per job, the JobProgress updates written in order
  aged,         \* job ids whose entry's startTime lies more than maxAge back
  swept,        \* history: the entries performHousekeeping deleted
  collector,    \* TrendCollector: isRunning and the position of collectTrends
  trendRunRows, \* trend_runs rows of the collector, each with its status history
  analysis,     \* analyzeKeywordTrends: loop position and what it has done
  aggregation,  \* aggregateMultiSourceTrends: its arguments and its keywordMap
  numbers,      \* the double arithmetic on the metrics in use, worked out once
  normalization, \* normalizeKeyword: its argument and what it returned
  polling,      \* pollTaskStatus: its position, the clock and its requests
  retrying,     \* a collaborator's retry loop: its attempts and its waits
  apiCollector  \* the TrendCollector of admin/routes/api.ts

\* ----------------------------------------------------------- aggregation
\* Keywords are sequences of characters. The keywords the sources hand in:
\* a word of ten letters; the same word with a capital and a '!'; words at
\* edit distance 3, 2 and 1 from it; a keyword of one '!'.
Keywords ==
  { <<"!">>,
    <<"a", "b", "c", "d", "e", "f", "g", "h", "i", "j">>,
    <<"A", "b", "c", "d", "e", "f", "g", "h", "i", "j", "!">>,
    <<"a", "b", "c", "d", "e", "f", "g", "x", "y", "z">>,
    <<"a", "b", "c", "d", "e", "f", "g", "h", "x", "y">>,
    <<"a", "b", "q", "d", "e", "f", "g", "h", "i", "j">> }

\* A character is a string of one ASCII character, or the code point of
\* another character: U+D55C is a Hangul syllable; U+0130 is the capital I
\* with a dot, whose lower case is i followed by the combining dot U+0307;
\* U+13A0 is a Cherokee capital, below the range of the pattern, whose lower
\* case U+AB70 is within it; U+A78D is a Latin capital within the range whose
\* lower case U+0265 is below it.
\* String.prototype.toLowerCase, on the characters in use.
ToLowerCase(c) ==
  IF c = "A" THEN "a"
  ELSE IF c = "U+13A0" THEN "U+AB70"
  ELSE IF c = "U+A78D" THEN "U+0265"
  ELSE c
RECURSIVE Lowered(_)
Lowered(str) ==
  IF str = <<>> THEN <<>>
  ELSE (IF Head(str) = "U+0130" THEN <<"i", "U+0307">>
        ELSE <<ToLowerCase(Head(str))>>) \o Lowered(Tail(str))
\* \w, \s and the range from U+3131 to U+D7A3, among the characters in use.
WordCharacters ==
  {"a", "b", "c", "d", "e", "f", "g", "h", "i", "j", "q", "x", "y", "z", "A",
   "0", "_"}
WhiteSpace == {" ", "\t"}
HangulRange == {"U+D55C", "U+AB70", "U+A78D"}
\* The characters /[^\w\sㄱ-힣]/g removes.
Removed(c) == c \notin WordCharacters \cup WhiteSpace \cup HangulRange

RECURSIVE TrimStart(_)
TrimStart(str) ==
  IF Len(str) > 0 /\ Head(str) \in WhiteSpace THEN TrimStart(Tail(str)) ELSE str
RECURSIVE TrimEnd(_)
TrimEnd(str) ==
  IF Len(str) > 0 /\ str[Len(str)] \in WhiteSpace
  THEN TrimEnd(SubSeq(str, 1, Len(str) - 1)) ELSE str

\* A normalization that trims before it removes.
NormalizeKeywordTrimFirst(keyword) ==
  SelectSeq(Lowered(TrimEnd(TrimStart(keyword))), LAMBDA c : ~Removed(c))

\* keyword.toLowerCase().replace(/[^\w\sㄱ-힣]/g, '').trim()
NormalizeKeyword(keyword) ==
  TrimEnd(TrimStart(SelectSeq(Lowered(keyword), LAMBDA c : ~Removed(c))))

\* One row of the matrix of calculateSimilarity: row j (for character ch of
\* str2) from row j - 1. Element i + 1 of a row holds matrix[j][i].
RECURSIVE FillRow(_, _, _, _)
FillRow(previous, str1, ch, row) ==
  IF Len(row) = Len(str1) + 1 THEN row
  ELSE LET i == Len(row)
           cost == IF str1[i] = ch THEN 0 ELSE 1
           deletion == previous[i + 1] + 1
           insertion == row[i] + 1
           substitution == previous[i] + cost
           least == IF deletion < insertion THEN deletion ELSE insertion
       IN  FillRow(previous, str1, ch,
             Append(row, IF least < substitution THEN least ELSE substitution))
RECURSIVE FillMatrix(_, _, _, _)
FillMatrix(previous, str1, str2, j) ==
  IF j > Len(str2) THEN previous
  ELSE FillMatrix(FillRow(previous, str1, str2[j], <<j>>), str1, str2, j + 1)

\* The edit distance: matrix[len2][len1].
Levenshtein(str1, str2) ==
  FillMatrix([k \in 1..(Len(str1) + 1) |-> k - 1], str1, str2, 1)[Len(str1) + 1]

\* calculateSimilarity, as the fraction num / den.
CalculateSimilarity(str1, str2) ==
  LET len1 == Len(str1)
      len2 == Len(str2)
      maxLength == IF len1 > len2 THEN len1 ELSE len2
  IN  IF len1 = 0 THEN [num |-> IF len2 = 0 THEN 1 ELSE 0, den |-> 1]
      ELSE IF len2 = 0 THEN [num |-> 0, den |-> 1]
      ELSE [num |-> maxLength - Levenshtein(str1, str2), den |-> maxLength]

\* The similarities of the normalized keywords in use, computed once.
NormalizedKeywords == {NormalizeKeyword(k) : k \in Keywords}
Similarities ==
  [a \in NormalizedKeywords |->
     [b \in NormalizedKeywords |-> CalculateSimilarity(a, b)]]

\* if (similarity > 0.7)
IsSimilar(similarity) == similarity.num * 10 > 7 * similarity.den

\* Whether an existing key stops the loop of findSimilarKeyword.
Matches(normalized, existing) ==
  LET existingNormalized == NormalizeKeyword(existing)
  IN  \/ normalized = existingNormalized
      \/ IsSimilar(Similarities[normalized][existingNormalized])

\* A search that returns the last matching key.
FindSimilarKeywordMutant(keyword, existingKeywords) ==
  LET normalized == NormalizeKeyword(keyword)
      hits == {i \in 1..Len(existingKeywords) :
                 Matches(normalized, existingKeywords[i])}
  IN  IF hits = {} THEN 0 ELSE CHOOSE i \in hits : \A k \in hits : k <= i

\* findSimilarKeyword: the first existing key (in insertion order of the
\* map) that matches, as its position; 0 for null.
FindSimilarKeyword(keyword, existingKeywords) ==
  LET normalized == NormalizeKeyword(keyword)
      hits == {i \in 1..Len(existingKeywords) :
                 Matches(normalized, existingKeywords[i])}
  IN  IF hits = {} THEN 0 ELSE CHOOSE i \in hits : \A k \in hits : i <= k

\* The trends of the three sources, with the fields the aggregation reads.
\* sincePublished is Date.now() - new Date(publishedAt).getTime(), in ms.
GoogleTrend(keyword, data) ==
  [ keyword |-> keyword, score |-> data.score,
    predictedViews |-> data.predictedViews, category |-> data.category ]
NaverTrend(keyword, data) ==
  [ keyword |-> keyword, searchVolume |-> data.searchVolume,
    growth |-> data.growth, category |-> data.category ]
YouTubeTrend(keyword, data) ==
  [ keyword |-> keyword, viewCount |-> data.viewCount,
    likeCount |-> data.likeCount, commentCount |-> data.commentCount,
    sincePublished |-> data.sincePublished, categoryId |-> data.categoryId,
    trendScore |-> data.trendScore ]
MsPerDay == 1000 * 60 * 60 * 24
GoogleTrendData ==
  { [score |-> 0, predictedViews |-> 0, category |-> "general"],
    [score |-> 7, predictedViews |-> 700, category |-> "technology"],
    [score |-> 40, predictedViews |-> 4000, category |-> "general"] }
NaverTrendData ==
  [ searchVolume : {7, 50}, growth : {0, 50, 150}, category : {"general"} ]
    \cup { [searchVolume |-> 0, growth |-> 101, category |-> "lifestyle"] }
YouTubeTrendData ==
  [ viewCount : {0, 65000, 2000000}, likeCount : {1234}, commentCount : {56},
    sincePublished : {MsPerDay + 12345, 8 * MsPerDay},
    categoryId : {"28"}, trendScore : {1000000, 1000001} ]
    \cup { [ viewCount |-> 65000, likeCount |-> 0, commentCount |-> 0,
             sincePublished |-> 7 * MsPerDay, categoryId |-> "0",
             trendScore |-> 0 ] }
\* The trends aggregateMultiSourceTrends is handed when the keywords vary.
GoogleTrendOf(keyword) ==
  GoogleTrend(keyword, [score |-> 40, predictedViews |-> 4000, category |-> "general"])
NaverTrendOf(keyword) ==
  NaverTrend(keyword, [searchVolume |-> 50, growth |-> 150, category |-> "general"])
YouTubeTrendOf(keyword) ==
  YouTubeTrend(keyword,
    [ viewCount |-> 65000, likeCount |-> 1234, commentCount |-> 56,
      sincePublished |-> MsPerDay + 12345, categoryId |-> "28",
      trendScore |-> 1000001 ])

\* sourceData without a trend of a source: undefined.
NoTrend == [keyword |-> NULL]
Present(trend) == DOMAIN trend # {"keyword"}
\* createAggregatedTrend(keyword), with the observations attached (history).
CreateAggregatedTrend(keyword) ==
  [ keyword |-> keyword, aggregatedScore |-> Zero, sources |-> <<>>,
    sourceData |-> [src \in {"google", "naver", "youtube"} |-> NoTrend],
    category |-> "general", predictedViews |-> 0, confidence |-> Zero,
    crossPlatformValidation |-> FALSE, trendVelocity |-> Zero,
    observations |-> {} ]

\* The keywordMap: keys in insertion order, with their values; decisions
\* (history) holds, for every trend processed, the number of keys the map had
\* and the position of the entry the trend was put in.
EmptyKeywordMap == [keys |-> <<>>, values |-> <<>>, decisions |-> <<>>]
KeyPosition(map, key) ==
  IF \E i \in 1..Len(map.keys) : map.keys[i] = key
  THEN CHOOSE i \in 1..Len(map.keys) : map.keys[i] = key
  ELSE 0

\* One iteration of the loop of a source: trend number n of `source`.
\* Google trends look for their normalized keyword only; Naver and YouTube
\* trends then search for a similar key.
ProcessTrend(map, source, n, trend) ==
  LET normalizedKeyword == NormalizeKeyword(trend.keyword)
      exact == KeyPosition(map, normalizedKeyword)
      similar == IF exact = 0 /\ source # "google"
                 THEN FindSimilarKeyword(normalizedKeyword, map.keys) ELSE 0
      at == IF exact # 0 THEN exact
            ELSE IF similar # 0 THEN similar ELSE Len(map.keys) + 1
      before == IF at > Len(map.keys)
                THEN CreateAggregatedTrend(trend.keyword) ELSE map.values[at]
      includes == \E i \in 1..Len(before.sources) : before.sources[i] = source
      after == [before EXCEPT
                  !.sourceData[source] = trend,
                  !.sources = IF source # "google" /\ includes
                              THEN @ ELSE Append(@, source),
                  !.observations = @ \cup {<<source, n>>}]
      decisions == Append(map.decisions,
                     [source |-> source, n |-> n, size |-> Len(map.keys),
                      at |-> at])
  IN  IF at > Len(map.keys)
      THEN [keys |-> Append(map.keys, normalizedKeyword),
            values |-> Append(map.values, after),
            decisions |-> decisions]
      ELSE [map EXCEPT !.values[at] = after, !.decisions = decisions]

\* The loop over the trends of one source.
RECURSIVE ProcessTrends(_, _, _, _)
ProcessTrends(map, source, trends, n) ==
  IF n > Len(trends) THEN map
  ELSE ProcessTrends(ProcessTrend(map, source, n, trends[n]), source, trends, n + 1)

\* The keywordMap aggregateMultiSourceTrends has built after its three loops.
KeywordMapOf(googleTrends, naverTrends, youtubeTrends) ==
  ProcessTrends(
    ProcessTrends(
      ProcessTrends(EmptyKeywordMap, "google", googleTrends, 1),
      "naver", naverTrends, 1),
    "youtube", youtubeTrends, 1)

\* The weights of calculateAggregatedMetrics.
GoogleWeight == Literal(10, 10)
NaverWeight == Literal(15, 10)
YouTubeWeight == Literal(12, 10)
\* Math.round(viewCount / 10000): the quotient is within 1e-12 of the exact
\* one, which is either at a half (and then a double) or 1e-4 away from it.
NormalizedScore(viewCount) == (viewCount + 5000) \div 10000
\* totalScore / totalWeight for the metrics of the sources present (Absent
\* for a source that is not).
Absent == 0 - 1
AggregatedScore(score, searchVolume, normalizedScore) ==
  LET present(x) == x # Absent
      score1 == IF present(score)
                THEN DoubleAdd(Zero, DoubleMultiply(DoubleOf(score), GoogleWeight))
                ELSE Zero
      weight1 == IF present(score) THEN DoubleAdd(Zero, GoogleWeight) ELSE Zero
      score2 == IF present(searchVolume)
                THEN DoubleAdd(score1, DoubleMultiply(DoubleOf(searchVolume), NaverWeight))
                ELSE score1
      weight2 == IF present(searchVolume) THEN DoubleAdd(weight1, NaverWeight) ELSE weight1
      totalScore == IF present(normalizedScore)
                    THEN DoubleAdd(score2, DoubleMultiply(DoubleOf(normalizedScore), YouTubeWeight))
                    ELSE score2
      totalWeight == IF present(normalizedScore)
                     THEN DoubleAdd(weight2, YouTubeWeight) ELSE weight2
  IN  IF DoubleLess(Zero, totalWeight)
      THEN DoubleDivide(totalScore, totalWeight) ELSE Zero
\* The aggregated scores of the metrics in use, computed once.
OrAbsent(values) == values \cup {Absent}
AggregatedScores ==
  [ score \in OrAbsent({d.score : d \in GoogleTrendData}) |->
    [ searchVolume \in OrAbsent({d.searchVolume : d \in NaverTrendData}) |->
      [ normalizedScore \in
          OrAbsent({NormalizedScore(d.viewCount) : d \in YouTubeTrendData}) |->
        AggregatedScore(score, searchVolume, normalizedScore) ] ] ]

\* calculateConfidence, from the outcome of its four tests.
One == DoubleOf(1)
Confidence(several, naver, engagement, growth) ==
  LET base == Literal(5, 10)
      validated == IF several THEN DoubleAdd(base, Literal(3, 10)) ELSE base
      korean == IF naver THEN DoubleAdd(validated, Literal(2, 10)) ELSE validated
      engaged == IF engagement THEN DoubleAdd(korean, Literal(1, 10)) ELSE korean
      confidence == IF growth THEN DoubleAdd(engaged, Literal(1, 10)) ELSE engaged
  IN  IF DoubleLess(One, confidence) THEN One ELSE confidence
Confidences ==
  [ several \in BOOLEAN |-> [ naver \in BOOLEAN |->
      [ engagement \in BOOLEAN |-> [ growth \in BOOLEAN |->
          Confidence(several, naver, engagement, growth) ] ] ] ]
CalculateConfidence(trend) ==
  numbers.confidences
    [Len(trend.sources) > 1]
    [\E i \in 1..Len(trend.sources) : trend.sources[i] = "naver"]
    [Present(trend.sourceData.youtube) /\ trend.sourceData.youtube.trendScore > 1000000]
    [Present(trend.sourceData.naver) /\ trend.sourceData.naver.growth > 100]

\* calculateTrendVelocity: growth / 100 ...
GrowthVelocity(growth) == DoubleDivide(DoubleOf(growth), DoubleOf(100))
\* ... or recencyFactor * engagementRate * 10 ...
EngagementVelocity(viewCount, likeCount, commentCount, sincePublished) ==
  LET daysSincePublished == DoubleDivide(DoubleOf(sincePublished), DoubleOf(MsPerDay))
      recencyFactor ==
        IF DoubleLess(DoubleOf(7), daysSincePublished) THEN Zero
        ELSE DoubleDivide(DoubleSubtract(DoubleOf(7), daysSincePublished), DoubleOf(7))
      engagementRate ==
        IF viewCount > 0
        THEN DoubleDivide(DoubleOf(likeCount + commentCount), DoubleOf(viewCount))
        ELSE Zero
  IN  DoubleMultiply(DoubleMultiply(recencyFactor, engagementRate), DoubleOf(10))
\* ... or 0.5.
DefaultVelocity == Literal(5, 10)
\* The velocities of the metrics in use, computed once.
GrowthVelocities ==
  [growth \in {d.growth : d \in NaverTrendData} |-> GrowthVelocity(growth)]
EngagementVelocities ==
  [ d \in {[ viewCount |-> y.viewCount, likeCount |-> y.likeCount,
             commentCount |-> y.commentCount,
             sincePublished |-> y.sincePublished ] : y \in YouTubeTrendData} |->
    EngagementVelocity(d.viewCount, d.likeCount, d.commentCount, d.sincePublished) ]
\* if (trend.sourceData.naver?.growth)
TruthyNumber(number) == number # 0
CalculateTrendVelocity(trend) ==
  LET naver == trend.sourceData.naver
      youtube == trend.sourceData.youtube
  IN  IF Present(naver) /\ TruthyNumber(naver.growth) THEN numbers.growthVelocities[naver.growth]
      ELSE IF Present(youtube)
      THEN numbers.engagementVelocities[
             [ viewCount |-> youtube.viewCount, likeCount |-> youtube.likeCount,
               commentCount |-> youtube.commentCount,
               sincePublished |-> youtube.sincePublished ]]
      ELSE numbers.defaultVelocity

\* mapYouTubeCategoryToGeneral
MapYouTubeCategoryToGeneral(categoryId) ==
  IF categoryId \in {"1", "2", "20", "23", "24"} THEN "entertainment"
  ELSE IF categoryId \in {"10", "15", "17", "19", "22", "25", "26", "27"}
  THEN "lifestyle"
  ELSE IF categoryId = "28" THEN "technology"
  ELSE "general"

Larger(a, b) == IF a > b THEN a ELSE b
\* calculateAggregatedMetrics(trend)
CalculateAggregatedMetrics(trend) ==
  LET google == trend.sourceData.google
      naver == trend.sourceData.naver
      youtube == trend.sourceData.youtube
      views1 == IF Present(google) THEN Larger(0, google.predictedViews) ELSE 0
      views2 == IF Present(naver) THEN Larger(views1, naver.searchVolume * 100) ELSE views1
      maxPredictedViews == IF Present(youtube) THEN Larger(views2, youtube.viewCount) ELSE views2
      category ==
        IF Present(naver) /\ naver.category # "" /\ naver.category # "general"
        THEN naver.category
        ELSE IF Present(google) /\ google.category # "" /\ google.category # "general"
        THEN google.category
        ELSE IF Present(youtube) /\ youtube.categoryId # ""
        THEN MapYouTubeCategoryToGeneral(youtube.categoryId)
        ELSE trend.category
      scored == [trend EXCEPT
                   !.aggregatedScore =
                      numbers.aggregatedScores
                        [IF ~Present(google) THEN Absent ELSE google.score]
                        [IF ~Present(naver) THEN Absent ELSE naver.searchVolume]
                        [IF ~Present(youtube) THEN Absent
                         ELSE NormalizedScore(youtube.viewCount)],
                   !.predictedViews = maxPredictedViews,
                   !.category = category,
                   !.crossPlatformValidation = Len(trend.sources) > 1]
      confident == [scored EXCEPT !.confidence = CalculateConfidence(scored)]
  IN  [confident EXCEPT !.trendVelocity = CalculateTrendVelocity(confident)]

\* aggregatedTrends.sort((a, b) => b.aggregatedScore - a.aggregatedScore)
SortByAggregatedScore(trends) ==
  LET n == Len(trends)
      Before(j, i) ==
        \/ DoubleLess(trends[i].aggregatedScore, trends[j].aggregatedScore)
        \/ trends[i].aggregatedScore = trends[j].aggregatedScore /\ j < i
      Position(i) == 1 + Cardinality({j \in 1..n : Before(j, i)})
  IN  [p \in 1..n |-> trends[CHOOSE i \in 1..n : Position(i) = p]]

\* const aggregatedTrends = Array.from(keywordMap.values()), each with its
\* metrics.
WithAggregatedMetrics(map) ==
  [i \in 1..Len(map.values) |-> CalculateAggregatedMetrics(map.values[i])]

\* The sequences of at most max elements of a set.
TrendLists(max, trends) ==
  UNION {[1..n -> trends] : n \in 0..max}

NoAggregation ==
  [ pc |-> "idle", google |-> <<>>, naver |-> <<>>, youtube |-> <<>>,
    keywordMap |-> EmptyKeywordMap, aggregatedTrends |-> <<>> ]

\* The state of trend discovery, and the state no step of a video job
\* touches.
\* The services called on their own.
services == <<normalization, polling, retrying, apiCollector>>
beside == <<collector, trendRunRows, analysis, aggregation, numbers, services>>
aside == <<swept, beside>>

vars ==
  <<jobs, activeJobs, timers, runs, runLimit, trendRuns, dbFailures, restarts,
    collabFailures, calls, statusLog, progressLog, aged, aside>>

JobIds == 1..Len(jobs)
RunIds == 1..Len(runs)

NewRun(kind, customTopic, skipVideo, skipUpload, pc) ==
  [ kind |-> kind, pc |-> pc, customTopic |-> customTopic,
    skipVideoGeneration |-> skipVideo, skipUpload |-> skipUpload,
    topic |-> NULL, jobId |-> 0, retryOf |-> 0, job |-> NoJob,
    video |-> FALSE, thumbnails |-> FALSE, upload |-> FALSE,
    error |-> NoError, epoch |-> restarts ]

\* The arithmetic of the aggregation is worked out where trends are
\* aggregated.
Doubles ==
  [ aggregatedScores |-> AggregatedScores, confidences |-> Confidences,
    growthVelocities |-> GrowthVelocities,
    engagementVelocities |-> EngagementVelocities,
    defaultVelocity |-> DefaultVelocity ]
NoDoubles == <<>>

\* No call of normalizeKeyword yet.
NoNormalization == [pc |-> "idle", keyword |-> <<>>, once |-> <<>>, twice |-> <<>>]

\* No call of pollTaskStatus yet. elapsed is Date.now() - startTime in ms;
\* requests counts the getTaskStatus calls; failed: one of them reported the
\* task as failed, polledAgain: another one was made after that (history).
NoPolling ==
  [ pc |-> "idle", elapsed |-> 0, requests |-> 0, status |-> NULL,
    error |-> NULL, failed |-> FALSE, polledAgain |-> FALSE ]

\* No call of a collaborator's retry loop yet. attempts: what each API call
\* made so far led to; waits: the backoff delays awaited so far (ms), each
\* with the number of API calls made before it.
NoRetrying ==
  [ pc |-> "idle", service |-> NULL, attempt |-> 0, lastError |-> NULL,
    attempts |-> <<>>, waits |-> <<>>, result |-> NULL, error |-> NULL ]

\* The TrendCollector that admin/routes/api.ts constructs for itself: its
\* flag, the position of its collectTrends call and the row of that call.
IdleApiCollector == [pc |-> "idle", isRunning |-> FALSE, count |-> 0, trendRunId |-> 0]

InitWith(limit, doubles) ==
  /\ numbers = doubles
  /\ apiCollector = IdleApiCollector
  /\ retrying = NoRetrying
  /\ polling = NoPolling
  /\ normalization = NoNormalization
  /\ runLimit = limit
  /\ jobs = <<>>
  /\ activeJobs = <<>>
  /\ timers = {}
  /\ runs = <<>>
  /\ trendRuns = 0
  /\ dbFailures = 0
  /\ restarts = 0
  /\ collabFailures = 0
  /\ calls = <<>>
  /\ statusLog = <<>>
  /\ progressLog = <<>>
  /\ aged = {}
  /\ swept = {}
  /\ collector = IdleCollector
  /\ trendRunRows = <<>>
  /\ analysis = NoAnalysis
  /\ aggregation = NoAggregation
InitState(limit) == InitWith(limit, NoDoubles)

Init == InitState(MaxRuns)

\* ---------------------------------------------------------------- helpers
\* updateJobProgress: set the job's entry (the map has one entry per job id).
UpdateJobProgressEntry(step, progress) ==
  [currentStep |-> step, progress |-> progress]
UpdateJobProgress(aj, jobId, step, progress) ==
  [j \in (DOMAIN aj) \cup {jobId} |->
     IF j = jobId THEN UpdateJobProgressEntry(step, progress) ELSE aj[j]]

\* this.activeJobs.delete(jobId)
DeleteJobProgress(aj, jobId) ==
  [j \in (DOMAIN aj) \ {jobId} |-> aj[j]]

\* getJobProgress: the entry, or null (written as an entry without a step).
NoProgress == UpdateJobProgressEntry(NULL, 0)
GetJobProgress(jobId) ==
  IF jobId \in DOMAIN activeJobs THEN activeJobs[jobId] ELSE NoProgress

LogProgress(pl, jobId, step, progress) ==
  [pl EXCEPT ![jobId] = Append(@, UpdateJobProgressEntry(step, progress))]

\* A stage collaborator is called / its promise settles.
CallStage(cl, jobId, stage) ==
  [cl EXCEPT ![jobId] = Append(@, [stage |-> stage, result |-> "inflight"])]
SettleStage(cl, jobId, result) ==
  LET n == Len(cl[jobId])
  IN  [cl EXCEPT ![jobId][n].result = result]

\* videoJobModel.update(id, updates): UPDATE video_jobs SET ... WHERE id = ?
UpdateJob(js, id, updates) ==
  [js EXCEPT ![id] =
     [f \in DOMAIN @ |-> IF f \in DOMAIN updates THEN updates[f] ELSE @[f]]]
LogStatus(sl, id, updates) ==
  IF "status" \in DOMAIN updates
  THEN [sl EXCEPT ![id] = Append(@, updates.status)]
  ELSE sl

\* A storage call may reject (within the bound on rejected calls).
DbMayFail == dbFailures < MaxDbFailures

\* The catch block up to its first await: with a job id it issues the
\* status = 'failed' update, without one it rethrows at once (and finally
\* schedules nothing).
EnterCatch(run, e) ==
  IF run.jobId # 0
  THEN [run EXCEPT !.pc = "catchUpdate", !.error = e]
  ELSE [run EXCEPT !.pc = "thrown", !.error = e]

\* ------------------------------------------------------- createVideoJob
\* createVideoJob(config) is called; it runs to the first await of
\* discoverTopic.
StartCreateVideoJob(customTopic, skipVideo, skipUpload) ==
  /\ Len(runs) < runLimit
  /\ runs' = Append(runs,
        IF Truthy(customTopic)
        THEN [NewRun("createVideoJob", customTopic, skipVideo, skipUpload,
                     "createTrendRun") EXCEPT !.topic = customTopic]
        ELSE NewRun("createVideoJob", customTopic, skipVideo, skipUpload,
                    "discoverTrends"))
  /\ UNCHANGED <<jobs, activeJobs, timers, trendRuns, dbFailures, restarts,
                 runLimit, aged, aside,
                 collabFailures,
                 calls, statusLog, progressLog>>

\* trendsService.discoverTrends() settles: a selected topic, or none.
DiscoverTrendsReturns(r) ==
  /\ runs[r].pc = "discoverTrends"
  /\ \/ \E t \in DiscoveredTopics :
          runs' = [runs EXCEPT ![r].pc = "createTrendRun", ![r].topic = t]
     \/ runs' = [runs EXCEPT ![r] =
                   EnterCatch(@, [isError |-> TRUE,
                     message |-> "No trending topic could be discovered"])]
  /\ UNCHANGED <<jobs, activeJobs, timers, trendRuns, dbFailures, restarts,
                 runLimit, aged, aside,
                 collabFailures,
                 calls, statusLog, progressLog>>

\* trendRunModel.create settles; on success videoJobModel.create is issued.
CreateTrendRunReturns(r) ==
  /\ runs[r].pc = "createTrendRun"
  /\ \/ /\ trendRuns' = trendRuns + 1
        /\ runs' = [runs EXCEPT ![r].pc = "createJob"]
        /\ UNCHANGED dbFailures
     \/ /\ DbMayFail
        /\ dbFailures' = dbFailures + 1
        /\ runs' = [runs EXCEPT ![r] = EnterCatch(@, DbError)]
        /\ UNCHANGED trendRuns
  /\ UNCHANGED <<jobs, activeJobs, timers, restarts, runLimit, aged, aside,
                 collabFailures, calls,
                 statusLog,
                 progressLog>>

\* The initial status videoJobModel.create persists.
InitialStatus == "script_generation"

\* A progress table whose thumbnail target lies below the video target.
ProgressTargetMutant(kind, step) ==
  IF step = "failed" THEN 0
  ELSE IF step = "completed" THEN 100
  ELSE CASE step = "script_generation" -> 15
         [] step = "narration" -> 30
         [] step = "video_synthesis" -> 50
         [] step = "thumbnail_generation" -> 40
         [] step = "youtube_upload" -> 85

\* The fixed percent updateJobProgress is called with at each step.
ProgressTarget(kind, step) ==
  IF step = "failed" THEN 0
  ELSE IF step = "completed" THEN 100
  ELSE IF kind = "createVideoJobWithScript"
  THEN CASE step = "narration" -> 20
         [] step = "video_synthesis" -> 50
         [] step = "thumbnail_generation" -> 75
         [] step = "youtube_upload" -> 90
  ELSE CASE step = "script_generation" -> 15
         [] step = "narration" -> 30
         [] step = "video_synthesis" -> 50
         [] step = "thumbnail_generation" -> 70
         [] step = "youtube_upload" -> 85

ProgressEntries(kind, steps) ==
  [i \in 1..Len(steps) |->
     UpdateJobProgressEntry(steps[i], ProgressTarget(kind, steps[i]))]

\* The updateJobProgress calls of one synchronous stretch of a run.
WriteProgress(id, kind, steps) ==
  /\ activeJobs' = UpdateJobProgress(activeJobs, id, steps[Len(steps)],
                     ProgressTarget(kind, steps[Len(steps)]))
  /\ progressLog' = [progressLog EXCEPT ![id] = @ \o ProgressEntries(kind, steps)]

\* A storage update of the job row succeeds.
WriteJob(id, updates) ==
  /\ jobs' = UpdateJob(jobs, id, updates)
  /\ statusLog' = LogStatus(statusLog, id, updates)
  /\ UNCHANGED dbFailures

\* A storage call rejects: the run enters its catch block.
DbRejects(r) ==
  /\ DbMayFail
  /\ dbFailures' = dbFailures + 1
  /\ runs' = [runs EXCEPT ![r] = EnterCatch(@, DbError)]

\* A stage collaborator rejects: the run enters its catch block.
CollaboratorMayFail == collabFailures < MaxCollaboratorFailures
CollaboratorRejects(r) ==
  \E e \in ErrorValues :
    /\ CollaboratorMayFail
    /\ collabFailures' = collabFailures + 1
    /\ runs' = [runs EXCEPT ![r] = EnterCatch(@, e)]
    /\ calls' = SettleStage(calls, runs[r].jobId, "failed")

\* A guard that ignores the skip flag.
RunsVideoStageMutant(run) == TRUE

\* if (!config.skipVideoGeneration)
RunsVideoStage(run) == ~run.skipVideoGeneration

\* if (video && !config.skipUpload), the guard of thumbnails and of upload
RunsUploadStages(run) == run.video /\ ~run.skipUpload

\* videoJobModel.create settles: the row exists, progress starts at 15 and
\* the script collaborator is called.
CreateJobReturns(r) ==
  /\ runs[r].pc = "createJob"
  /\ \/ LET id == Len(jobs) + 1 IN
        /\ jobs' = Append(jobs, NewJob(InitialStatus, runs[r].topic, NULL))
        /\ statusLog' = Append(statusLog, <<InitialStatus>>)
        /\ activeJobs' = UpdateJobProgress(activeJobs, id, "script_generation",
                           ProgressTarget(runs[r].kind, "script_generation"))
        /\ progressLog' = Append(progressLog,
              ProgressEntries(runs[r].kind, <<"script_generation">>))
        /\ calls' = Append(calls,
              <<[stage |-> "script_generation", result |-> "inflight"]>>)
        /\ runs' = [runs EXCEPT ![r].jobId = id, ![r].pc = "generateScript"]
        /\ UNCHANGED dbFailures
     \/ /\ DbRejects(r)
        /\ UNCHANGED <<jobs, statusLog, activeJobs, progressLog, calls>>
  /\ UNCHANGED <<timers, trendRuns, restarts, runLimit, aged, aside, collabFailures>>

\* scriptService.generateScript settles.
GenerateScriptReturns(r) ==
  /\ runs[r].pc = "generateScript"
  /\ \/ /\ runs' = [runs EXCEPT ![r].pc = "updateScript"]
        /\ calls' = SettleStage(calls, runs[r].jobId, "ok")
        /\ UNCHANGED collabFailures
     \/ CollaboratorRejects(r)
  /\ UNCHANGED <<jobs, activeJobs, timers, trendRuns, dbFailures, restarts,
                 runLimit, aged, aside,
                 statusLog, progressLog>>

\* The update storing the script settles; narration is called.
UpdateScriptReturns(r) ==
  /\ runs[r].pc = "updateScript"
  /\ LET id == runs[r].jobId IN
     \/ /\ WriteJob(id, [script_text |-> "script"])
        /\ WriteProgress(id, runs[r].kind, <<"narration">>)
        /\ calls' = CallStage(calls, id, "narration")
        /\ runs' = [runs EXCEPT ![r].pc = "generateNarration"]
     \/ /\ DbRejects(r)
        /\ UNCHANGED <<jobs, statusLog, activeJobs, progressLog, calls>>
  /\ UNCHANGED <<timers, trendRuns, restarts, runLimit, aged, aside, collabFailures>>

\* ttsService.generateSpeech settles.
GenerateNarrationReturns(r) ==
  /\ runs[r].pc = "generateNarration"
  /\ \/ /\ runs' = [runs EXCEPT ![r].pc = "updateNarration"]
        /\ calls' = SettleStage(calls, runs[r].jobId, "ok")
        /\ UNCHANGED collabFailures
     \/ CollaboratorRejects(r)
  /\ UNCHANGED <<jobs, activeJobs, timers, trendRuns, dbFailures, restarts,
                 runLimit, aged, aside,
                 statusLog, progressLog>>

\* The update storing the narration (status 'narration') settles; the video
\* stage starts unless skipped, and then nothing is left but completion.
UpdateNarrationReturns(r) ==
  /\ runs[r].pc = "updateNarration"
  /\ LET id == runs[r].jobId IN
     \/ /\ WriteJob(id, [narration_file_path |-> "audio", status |-> "narration"])
        /\ IF RunsVideoStage(runs[r])
           THEN /\ WriteProgress(id, runs[r].kind, <<"video_synthesis">>)
                /\ calls' = CallStage(calls, id, "video_synthesis")
                /\ runs' = [runs EXCEPT ![r].pc = "generateVideo"]
           ELSE /\ runs' = [runs EXCEPT ![r].pc = "updateCompleted"]
                /\ UNCHANGED <<activeJobs, progressLog, calls>>
     \/ /\ DbRejects(r)
        /\ UNCHANGED <<jobs, statusLog, activeJobs, progressLog, calls>>
  /\ UNCHANGED <<timers, trendRuns, restarts, runLimit, aged, aside, collabFailures>>

\* videoSynthesisService.generateVideo settles.
GenerateVideoReturns(r) ==
  /\ runs[r].pc = "generateVideo"
  /\ \/ /\ runs' = [runs EXCEPT ![r].pc = "updateVideo", ![r].video = TRUE]
        /\ calls' = SettleStage(calls, runs[r].jobId, "ok")
        /\ UNCHANGED collabFailures
     \/ CollaboratorRejects(r)
  /\ UNCHANGED <<jobs, activeJobs, timers, trendRuns, dbFailures, restarts,
                 runLimit, aged, aside,
                 statusLog, progressLog>>

\* The update storing the video (status 'video_synthesis') settles;
\* thumbnails are generated unless the upload is skipped.
UpdateVideoReturns(r) ==
  /\ runs[r].pc = "updateVideo"
  /\ LET id == runs[r].jobId IN
     \/ /\ WriteJob(id, [video_file_path |-> "video", status |-> "video_synthesis"])
        /\ IF RunsUploadStages(runs[r])
           THEN /\ WriteProgress(id, runs[r].kind, <<"thumbnail_generation">>)
                /\ calls' = CallStage(calls, id, "thumbnail_generation")
                /\ runs' = [runs EXCEPT ![r].pc = "generateThumbnails"]
           ELSE /\ runs' = [runs EXCEPT ![r].pc = "updateCompleted"]
                /\ UNCHANGED <<activeJobs, progressLog, calls>>
     \/ /\ DbRejects(r)
        /\ UNCHANGED <<jobs, statusLog, activeJobs, progressLog, calls>>
  /\ UNCHANGED <<timers, trendRuns, restarts, runLimit, aged, aside, collabFailures>>

\* thumbnailService.generateThumbnailVariants settles; the upload follows
\* under the same guard.
GenerateThumbnailsReturns(r) ==
  /\ runs[r].pc = "generateThumbnails"
  /\ LET id == runs[r].jobId IN
     \/ /\ WriteProgress(id, runs[r].kind, <<"youtube_upload">>)
        /\ calls' = CallStage(SettleStage(calls, id, "ok"), id, "youtube_upload")
        /\ runs' = [runs EXCEPT ![r].pc = "uploadToYouTube", ![r].thumbnails = TRUE]
        /\ UNCHANGED collabFailures
     \/ /\ CollaboratorRejects(r)
        /\ UNCHANGED <<activeJobs, progressLog>>
  /\ UNCHANGED <<jobs, timers, trendRuns, dbFailures, restarts, runLimit, aged, aside,
                 statusLog>>

\* uploadToYouTube (metadata and upload of the upload service) settles.
UploadToYouTubeReturns(r) ==
  /\ runs[r].pc = "uploadToYouTube"
  /\ \/ /\ runs' = [runs EXCEPT ![r].pc = "updateCompleted", ![r].upload = TRUE]
        /\ calls' = SettleStage(calls, runs[r].jobId, "ok")
        /\ UNCHANGED collabFailures
     \/ CollaboratorRejects(r)
  /\ UNCHANGED <<jobs, activeJobs, timers, trendRuns, dbFailures, restarts,
                 runLimit, aged, aside,
                 statusLog, progressLog>>

\* The update marking the job completed settles; progress goes to 100.
UpdateCompletedReturns(r) ==
  /\ runs[r].pc = "updateCompleted"
  /\ LET id == runs[r].jobId IN
     \/ /\ WriteJob(id, [status |-> "completed", completed_at |-> "now"])
        /\ WriteProgress(id, runs[r].kind, <<"completed">>)
        /\ runs' = [runs EXCEPT ![r].pc = "logSuccess"]
     \/ /\ DbRejects(r)
        /\ UNCHANGED <<jobs, statusLog, activeJobs, progressLog>>
  /\ UNCHANGED <<timers, trendRuns, restarts, runLimit, aged, aside, collabFailures, calls>>

\* A finally that schedules the deletion on the success path only.
FinallySchedulesMutant(run) == run.jobId # 0 /\ run.pc \in {"logSuccess", "wsLogSuccess"}

\* finally: with a job id, schedule the deletion of its progress entry.
FinallySchedules(run) == run.jobId # 0
Finally(r) ==
  timers' = IF FinallySchedules(runs[r]) THEN timers \cup {runs[r].jobId}
            ELSE timers

\* logJobEvent settles (its own failure is swallowed); the call returns its
\* result and finally runs.
LogSuccessReturns(r) ==
  /\ runs[r].pc \in {"logSuccess", "wsLogSuccess"}
  /\ runs' = [runs EXCEPT ![r].pc = "returned"]
  /\ Finally(r)
  /\ UNCHANGED <<jobs, activeJobs, trendRuns, dbFailures, restarts, runLimit, aged, aside,
                 collabFailures, calls,
                 statusLog, progressLog>>

\* The catch block's update (status 'failed', error_message) settles. If it
\* rejects, its error leaves the catch block and finally runs.
CatchUpdateReturns(r) ==
  /\ runs[r].pc = "catchUpdate"
  /\ LET id == runs[r].jobId
         errorMessage == ErrorMessageOf(runs[r].error, CatchFallback(runs[r].kind))
     IN
     \/ /\ WriteJob(id, [status |-> "failed", error_message |-> errorMessage,
                         completed_at |-> "now"])
        /\ WriteProgress(id, runs[r].kind, <<"failed">>)
        /\ runs' = [runs EXCEPT ![r].pc = "catchLog"]
        /\ UNCHANGED timers
     \/ /\ DbMayFail
        /\ dbFailures' = dbFailures + 1
        /\ runs' = [runs EXCEPT ![r].pc = "thrown", ![r].error = DbError]
        /\ Finally(r)
        /\ UNCHANGED <<jobs, statusLog, activeJobs, progressLog>>
  /\ UNCHANGED <<trendRuns, restarts, runLimit, aged, aside, collabFailures, calls>>

\* The catch block's logJobEvent settles; the error is rethrown and finally
\* runs.
CatchLogReturns(r) ==
  /\ runs[r].pc = "catchLog"
  /\ runs' = [runs EXCEPT ![r].pc = "thrown"]
  /\ Finally(r)
  /\ UNCHANGED <<jobs, activeJobs, trendRuns, dbFailures, restarts, runLimit, aged, aside,
                 collabFailures, calls,
                 statusLog, progressLog>>

\* --------------------------------------------- createVideoJobWithScript
\* The keywords of the topic a caller hands to createVideoJobWithScript.
ScriptTopics == {"k1"}

\* if (!config.skipUpload && video && video.videoFilePath)
WsRunsUpload(run) == ~run.skipUpload /\ run.video

\* createVideoJobWithScript(topic, script, config) is called and issues
\* videoJobModel.create.
StartCreateVideoJobWithScript(topic, skipVideo, skipUpload) ==
  /\ Len(runs) < runLimit
  /\ runs' = Append(runs,
        [NewRun("createVideoJobWithScript", NULL, skipVideo, skipUpload,
                "wsCreateJob") EXCEPT !.topic = topic])
  /\ UNCHANGED <<jobs, activeJobs, timers, trendRuns, dbFailures, restarts,
                 runLimit, aged, aside,
                 collabFailures,
                 calls, statusLog, progressLog>>

\* videoJobModel.create settles: the row holds the given script, progress
\* starts at 20 and narration is called.
WsCreateJobReturns(r) ==
  /\ runs[r].pc = "wsCreateJob"
  /\ \/ LET id == Len(jobs) + 1 IN
        /\ jobs' = Append(jobs, NewJob(InitialStatus, runs[r].topic, "script"))
        /\ statusLog' = Append(statusLog, <<InitialStatus>>)
        /\ activeJobs' = UpdateJobProgress(activeJobs, id, "narration",
                           ProgressTarget(runs[r].kind, "narration"))
        /\ progressLog' = Append(progressLog,
              ProgressEntries(runs[r].kind, <<"narration">>))
        /\ calls' = Append(calls, <<[stage |-> "narration", result |-> "inflight"]>>)
        /\ runs' = [runs EXCEPT ![r].jobId = id, ![r].pc = "wsGenerateNarration"]
        /\ UNCHANGED dbFailures
     \/ /\ DbRejects(r)
        /\ UNCHANGED <<jobs, statusLog, activeJobs, progressLog, calls>>
  /\ UNCHANGED <<timers, trendRuns, restarts, runLimit, aged, aside, collabFailures>>

\* ttsService.generateSpeech settles.
WsGenerateNarrationReturns(r) ==
  /\ runs[r].pc = "wsGenerateNarration"
  /\ \/ /\ runs' = [runs EXCEPT ![r].pc = "wsUpdateNarration"]
        /\ calls' = SettleStage(calls, runs[r].jobId, "ok")
        /\ UNCHANGED collabFailures
     \/ CollaboratorRejects(r)
  /\ UNCHANGED <<jobs, activeJobs, timers, trendRuns, dbFailures, restarts,
                 runLimit, aged, aside,
                 statusLog, progressLog>>

\* The update storing the narration (status 'video_synthesis') settles;
\* progress goes to 50, then the video is generated or, if skipped, progress
\* goes on to 75 and the thumbnails are generated.
WsUpdateNarrationReturns(r) ==
  /\ runs[r].pc = "wsUpdateNarration"
  /\ LET id == runs[r].jobId IN
     \/ /\ WriteJob(id, [narration_file_path |-> "audio",
                         status |-> "video_synthesis"])
        /\ IF RunsVideoStage(runs[r])
           THEN /\ WriteProgress(id, runs[r].kind, <<"video_synthesis">>)
                /\ calls' = CallStage(calls, id, "video_synthesis")
                /\ runs' = [runs EXCEPT ![r].pc = "wsGenerateVideo"]
           ELSE /\ WriteProgress(id, runs[r].kind,
                                 <<"video_synthesis", "thumbnail_generation">>)
                /\ calls' = CallStage(calls, id, "thumbnail_generation")
                /\ runs' = [runs EXCEPT ![r].pc = "wsGenerateThumbnails"]
     \/ /\ DbRejects(r)
        /\ UNCHANGED <<jobs, statusLog, activeJobs, progressLog, calls>>
  /\ UNCHANGED <<timers, trendRuns, restarts, runLimit, aged, aside, collabFailures>>

\* videoSynthesisService.generateVideo settles.
WsGenerateVideoReturns(r) ==
  /\ runs[r].pc = "wsGenerateVideo"
  /\ \/ /\ runs' = [runs EXCEPT ![r].pc = "wsUpdateVideo", ![r].video = TRUE]
        /\ calls' = SettleStage(calls, runs[r].jobId, "ok")
        /\ UNCHANGED collabFailures
     \/ CollaboratorRejects(r)
  /\ UNCHANGED <<jobs, activeJobs, timers, trendRuns, dbFailures, restarts,
                 runLimit, aged, aside,
                 statusLog, progressLog>>

\* The status the update after video generation persists.
WsStatusAfterVideo == "completed"

\* The update storing the video settles; progress goes to 75 and the
\* thumbnails are generated.
WsUpdateVideoReturns(r) ==
  /\ runs[r].pc = "wsUpdateVideo"
  /\ LET id == runs[r].jobId IN
     \/ /\ WriteJob(id, [video_file_path |-> "video", status |-> WsStatusAfterVideo])
        /\ WriteProgress(id, runs[r].kind, <<"thumbnail_generation">>)
        /\ calls' = CallStage(calls, id, "thumbnail_generation")
        /\ runs' = [runs EXCEPT ![r].pc = "wsGenerateThumbnails"]
     \/ /\ DbRejects(r)
        /\ UNCHANGED <<jobs, statusLog, activeJobs, progressLog, calls>>
  /\ UNCHANGED <<timers, trendRuns, restarts, runLimit, aged, aside, collabFailures>>

\* After the thumbnail try/catch: upload if wanted and a video exists, else
\* progress 100 and the final update.
WsAfterThumbnails(r, cl, ok) ==
  LET id == runs[r].jobId IN
  IF WsRunsUpload(runs[r])
  THEN /\ WriteProgress(id, runs[r].kind, <<"youtube_upload">>)
       /\ calls' = CallStage(cl, id, "youtube_upload")
       /\ runs' = [runs EXCEPT ![r].pc = "wsUploadVideo", ![r].thumbnails = ok]
  ELSE /\ WriteProgress(id, runs[r].kind, <<"completed">>)
       /\ calls' = cl
       /\ runs' = [runs EXCEPT ![r].pc = "wsUpdateCompleted", ![r].thumbnails = ok]

\* thumbnailService.generateThumbnailVariants settles; its rejection is
\* caught and logged, and the run goes on.
WsGenerateThumbnailsReturns(r) ==
  /\ runs[r].pc = "wsGenerateThumbnails"
  /\ \/ /\ WsAfterThumbnails(r, SettleStage(calls, runs[r].jobId, "ok"), TRUE)
        /\ UNCHANGED collabFailures
     \/ /\ CollaboratorMayFail
        /\ collabFailures' = collabFailures + 1
        /\ WsAfterThumbnails(r, SettleStage(calls, runs[r].jobId, "failed"), FALSE)
  /\ UNCHANGED <<jobs, timers, trendRuns, dbFailures, restarts, runLimit, aged, aside,
                 statusLog>>

\* youtubeUploadService.uploadVideo settles: on success the upload row is
\* saved; a rejection is caught and logged, and the run goes on.
WsUploadVideoReturns(r) ==
  /\ runs[r].pc = "wsUploadVideo"
  /\ LET id == runs[r].jobId IN
     \/ /\ runs' = [runs EXCEPT ![r].pc = "wsSaveUpload", ![r].upload = TRUE]
        /\ calls' = SettleStage(calls, id, "ok")
        /\ UNCHANGED <<activeJobs, progressLog, collabFailures>>
     \/ /\ CollaboratorMayFail
        /\ collabFailures' = collabFailures + 1
        /\ runs' = [runs EXCEPT ![r].pc = "wsUpdateCompleted"]
        /\ calls' = SettleStage(calls, id, "failed")
        /\ WriteProgress(id, runs[r].kind, <<"completed">>)
  /\ UNCHANGED <<jobs, timers, trendRuns, dbFailures, restarts, runLimit, aged, aside,
                 statusLog>>

\* youtubeUploadModel.create settles (a rejection is caught by the upload
\* try/catch); progress goes to 100 and the final update is issued.
WsSaveUploadReturns(r) ==
  /\ runs[r].pc = "wsSaveUpload"
  /\ \/ UNCHANGED dbFailures
     \/ /\ DbMayFail
        /\ dbFailures' = dbFailures + 1
  /\ WriteProgress(runs[r].jobId, runs[r].kind, <<"completed">>)
  /\ runs' = [runs EXCEPT ![r].pc = "wsUpdateCompleted"]
  /\ UNCHANGED <<jobs, timers, trendRuns, restarts, runLimit, aged, aside, collabFailures,
                 calls,
                 statusLog>>

\* The final update (status 'completed') settles.
WsUpdateCompletedReturns(r) ==
  /\ runs[r].pc = "wsUpdateCompleted"
  /\ \/ /\ WriteJob(runs[r].jobId, [status |-> "completed", completed_at |-> "now"])
        /\ runs' = [runs EXCEPT ![r].pc = "wsLogSuccess"]
     \/ /\ DbRejects(r)
        /\ UNCHANGED <<jobs, statusLog>>
  /\ UNCHANGED <<activeJobs, timers, trendRuns, restarts, runLimit, aged, aside,
                 collabFailures,
                 calls, progressLog>>

\* ------------------------------------------------------------- retryJob
\* retryJob(jobId) is called and issues videoJobModel.getById.
StartRetryJob(jobId) ==
  /\ Len(runs) < runLimit
  /\ runs' = Append(runs,
        [NewRun("retryJob", NULL, FALSE, FALSE, "retryGetById")
           EXCEPT !.retryOf = jobId])
  /\ UNCHANGED <<jobs, activeJobs, timers, trendRuns, dbFailures, restarts,
                 runLimit, aged, aside,
                 collabFailures,
                 calls, statusLog, progressLog>>

\* A retry that always uses one fixed topic.
RetryCustomTopicMutant(job) == "k1"

\* The config retryJob passes to createVideoJob.
RetryCustomTopic(job) == job.topic

\* A retry of a job of any status.
RetryAllowedAlways(job) == TRUE

\* if (job.status !== 'failed') throw
RetryAllowed(job) == job.status = "failed"

\* getById settles. A missing job or a job that is not failed rejects the
\* call; otherwise createVideoJob({customTopic: job.topic}) starts.
RetryGetByIdReturns(r) ==
  /\ runs[r].pc = "retryGetById"
  /\ LET id == runs[r].retryOf IN
     \/ /\ id \notin JobIds
        /\ runs' = [runs EXCEPT ![r].pc = "thrown",
             ![r].error = [isError |-> TRUE, message |-> "Job not found"]]
        /\ UNCHANGED dbFailures
     \/ /\ id \in JobIds
        /\ ~RetryAllowed(jobs[id])
        /\ runs' = [runs EXCEPT ![r].pc = "thrown", ![r].job = jobs[id],
             ![r].error = [isError |-> TRUE,
                           message |-> "Job is not in failed status"]]
        /\ UNCHANGED dbFailures
     \/ /\ id \in JobIds
        /\ RetryAllowed(jobs[id])
        /\ LET t == RetryCustomTopic(jobs[id]) IN
           runs' = [runs EXCEPT ![r].job = jobs[id], ![r].customTopic = t,
             ![r].topic = IF Truthy(t) THEN t ELSE NULL,
             ![r].pc = IF Truthy(t) THEN "createTrendRun" ELSE "discoverTrends"]
        /\ UNCHANGED dbFailures
     \/ /\ DbMayFail
        /\ dbFailures' = dbFailures + 1
        /\ runs' = [runs EXCEPT ![r].pc = "thrown", ![r].error = DbError]
  /\ UNCHANGED <<jobs, activeJobs, timers, trendRuns, restarts, runLimit, aged, aside,
                 collabFailures, calls,
                 statusLog, progressLog>>

\* ------------------------------------------------------- timers, restart
\* A setTimeout callback scheduled by finally runs: the entry is deleted.
TimerFires(j) ==
  /\ j \in timers
  /\ activeJobs' = DeleteJobProgress(activeJobs, j)
  /\ timers' = timers \ {j}
  /\ aged' = aged \ {j}
  /\ UNCHANGED <<jobs, runs, trendRuns, dbFailures, restarts, runLimit, aside,
                 collabFailures,
                 calls,
                 statusLog, progressLog>>

Ended(run) == run.pc \in {"returned", "thrown", "abandoned"}

\* The process restarts: the activeJobs map, the timers and every run in
\* progress are gone (a collaborator call in flight is abandoned with its
\* run); the tables stay as last written.
Restart ==
  /\ restarts < MaxRestarts
  /\ \E r \in RunIds : ~Ended(runs[r])
  /\ restarts' = restarts + 1
  /\ activeJobs' = <<>>
  /\ timers' = {}
  /\ runs' = [r \in RunIds |->
       IF Ended(runs[r]) THEN runs[r] ELSE [runs[r] EXCEPT !.pc = "abandoned"]]
  /\ calls' = [j \in JobIds |->
       [i \in 1..Len(calls[j]) |->
          IF calls[j][i].result = "inflight"
          THEN [calls[j][i] EXCEPT !.result = "abandoned"]
          ELSE calls[j][i]]]
  /\ aged' = {}
  /\ UNCHANGED <<jobs, runLimit, aside, trendRuns, dbFailures, collabFailures,
                 statusLog, progressLog>>

\* ------------------------------------------------------- housekeeping
\* Time passes: the startTime of job j's entry is now more than maxAge
\* (one hour) back. No stage collaborator call of the orchestrator is bounded
\* in time, so this can happen at any step of a run.
HourPasses(j) ==
  /\ j \in (DOMAIN activeJobs) \ aged
  /\ aged' = aged \cup {j}
  /\ UNCHANGED <<jobs, activeJobs, timers, runs, runLimit, trendRuns,
                 dbFailures, restarts, collabFailures, calls, statusLog,
                 progressLog, aside>>

\* if (now - progress.startTime.getTime() > maxAge)
SweepsEntry(j) == j \in aged

\* performHousekeeping: after the three file cleanups have settled, every
\* entry older than maxAge is deleted. (If a cleanup rejects, the catch block
\* logs and nothing is deleted: no state changes.)
PerformHousekeeping ==
  LET gone == {j \in DOMAIN activeJobs : SweepsEntry(j)} IN
  /\ gone # {}
  /\ activeJobs' = [j \in (DOMAIN activeJobs) \ gone |-> activeJobs[j]]
  /\ aged' = aged \ gone
  /\ swept' = swept \cup {activeJobs[j] : j \in gone}
  /\ UNCHANGED <<jobs, timers, runs, runLimit, trendRuns, dbFailures,
                 restarts, collabFailures, calls, statusLog, progressLog,
                 beside>>

\* ------------------------------------------------------- collectTrends
\* The state of the video pipeline, which a collection run leaves alone.
pipeline ==
  <<jobs, activeJobs, timers, runs, runLimit, trendRuns, restarts,
    collabFailures, calls, statusLog, progressLog, aged, swept>>

\* The state a collection run leaves alone.
outsideCollector == <<pipeline, analysis, aggregation, numbers, services>>

\* trendRunModel.update(id, updates), with the history of the status values.
UpdateTrendRun(rows, id, status, selected) ==
  [rows EXCEPT ![id] = [ status |-> status, selected_topic |-> selected,
                         statuses |-> Append(@.statuses, status) ]]

\* The catch block of collectTrends up to its first await: with a run id the
\* status = 'failed' update is issued, else the error is logged.
CollectorCatch(c) ==
  [c EXCEPT !.pc = IF c.trendRunId # 0 THEN "catchUpdate" ELSE "catchLog"]

\* A finally block that leaves the flag as it is.
CollectorFinallyKeepsFlag(c, pc) == [c EXCEPT !.pc = pc]

\* finally: this.isRunning = false
CollectorFinally(c, pc) == [c EXCEPT !.pc = pc, !.isRunning = FALSE]

\* A storage call of collectTrends rejects inside the try block.
CollectorDbRejects ==
  /\ DbMayFail
  /\ dbFailures' = dbFailures + 1
  /\ collector' = CollectorCatch(collector)
  /\ UNCHANGED trendRunRows

\* collectTrends() is called while no collection is running (a call during a
\* run returns null at once): isRunning is set and the trend run row is
\* inserted.
CollectTrends ==
  /\ ~collector.isRunning
  /\ collector.pc \in {"idle", "returned", "thrown"}
  /\ collector.count < MaxCollections
  /\ collector' = NewCollector("createRun", TRUE, collector.count + 1)
  /\ UNCHANGED <<trendRunRows, dbFailures, outsideCollector>>

\* collectTrends() is called while a collection is running: if
\* (this.isRunning) return null, before the try block.
CollectTrendsWhileRunning ==
  /\ collector.isRunning
  /\ collector.refused < MaxRefused
  /\ collector' = [collector EXCEPT !.refused = @ + 1]
  /\ UNCHANGED <<trendRunRows, dbFailures, outsideCollector>>

\* trendRunModel.create({status: 'running'}) settles; the start is logged.
TrendRunCreateReturns ==
  /\ collector.pc = "createRun"
  /\ \/ /\ trendRunRows' = Append(trendRunRows,
              [ status |-> "running", selected_topic |-> NULL,
                statuses |-> <<"running">> ])
        /\ collector' = [collector EXCEPT !.trendRunId = Len(trendRunRows) + 1,
                                          !.pc = "logStart"]
        /\ UNCHANGED dbFailures
     \/ CollectorDbRejects
  /\ UNCHANGED outsideCollector

\* systemLogModel.create settles; discoverTrends is called and awaits Naver.
LogStartReturns ==
  /\ collector.pc = "logStart"
  /\ \/ /\ collector' = [collector EXCEPT !.pc = "naver", !.started = {"naver"}]
        /\ UNCHANGED <<trendRunRows, dbFailures>>
     \/ CollectorDbRejects
  /\ UNCHANGED outsideCollector

\* A source's fetch settles: its topics are pushed and the next await starts.
SourceReturns(source, topics, next) ==
  /\ collector.pc = source
  /\ collector' = [collector EXCEPT
       !.allTopics = @ \o topics,
       !.observed = @ + Len(topics),
       !.fetched = @ \cup {source},
       !.started = @ \cup {next},
       !.pc = next]
  /\ UNCHANGED <<trendRunRows, dbFailures, outsideCollector>>

NaverReturns == \E topics \in NaverResults : SourceReturns("naver", topics, "youtube")
YouTubeReturns == \E topics \in YouTubeResults : SourceReturns("youtube", topics, "google")

\* No fallback at all.
UsesFallbackNever(allTopics) == FALSE

\* A fallback that is also taken for a single topic.
UsesFallbackMutant(allTopics) == Len(allTopics) <= 1

\* if (allTopics.length === 0)
UsesFallback(allTopics) == Len(allTopics) = 0

\* The Google fetch settles; the fallback is applied, the topics are ranked
\* and one is selected; discoverTrends returns and collectTrends issues the
\* status = 'completed' update.
GoogleReturns ==
  /\ collector.pc = "google"
  /\ \E topics \in GoogleResults, fallback \in FallbackResults :
       LET got == collector.allTopics \o topics
           all == IF UsesFallback(got) THEN fallback ELSE got
           top == Top(RankTopics(all))
       IN  collector' = [collector EXCEPT
             !.allTopics = all,
             !.fetched = @ \cup {"google"},
             !.observed = @ + Len(topics),
             !.topics = top,
             !.selectedTopic = SelectFinalTopic(top),
             !.pc = "updateCompleted"]
  /\ UNCHANGED <<trendRunRows, dbFailures, outsideCollector>>

\* After the update and the stored topics: log the outcome.
AfterStore(c) ==
  [c EXCEPT !.pc = IF c.selectedTopic # NoTopic THEN "logSelected" ELSE "logNoTopic"]

\* The status = 'completed' update settles; the topics are stored one by one.
UpdateRunCompletedReturns ==
  /\ collector.pc = "updateCompleted"
  /\ \/ /\ trendRunRows' = UpdateTrendRun(trendRunRows, collector.trendRunId,
                             "completed", collector.selectedTopic.keyword)
        /\ collector' = IF Len(collector.topics) > 0
                          THEN [collector EXCEPT !.pc = "storeTopic"]
                          ELSE AfterStore(collector)
        /\ UNCHANGED dbFailures
     \/ CollectorDbRejects
  /\ UNCHANGED outsideCollector

\* trendingTopicModel.create of one topic settles.
StoreTopicReturns ==
  /\ collector.pc = "storeTopic"
  /\ \/ /\ collector' = IF collector.stored + 1 < Len(collector.topics)
                          THEN [collector EXCEPT !.stored = @ + 1]
                          ELSE AfterStore([collector EXCEPT !.stored = @ + 1])
        /\ UNCHANGED <<trendRunRows, dbFailures>>
     \/ CollectorDbRejects
  /\ UNCHANGED outsideCollector

\* The log of the selected topic settles; storeSelectedTopic and
\* triggerVideoGeneration swallow their errors; the result is returned.
LogSelectedReturns ==
  /\ collector.pc = "logSelected"
  /\ \/ /\ collector' = CollectorFinally(collector, "returned")
        /\ UNCHANGED <<trendRunRows, dbFailures>>
     \/ CollectorDbRejects
  /\ UNCHANGED outsideCollector

\* The 'No topic selected' log settles; the result is returned.
LogNoTopicReturns ==
  /\ collector.pc = "logNoTopic"
  /\ \/ /\ collector' = CollectorFinally(collector, "returned")
        /\ UNCHANGED <<trendRunRows, dbFailures>>
     \/ CollectorDbRejects
  /\ UNCHANGED outsideCollector

\* The catch block's status = 'failed' update settles. If it rejects, the
\* error leaves collectTrends after finally.
CollectorCatchUpdateReturns ==
  /\ collector.pc = "catchUpdate"
  /\ \/ /\ trendRunRows' = UpdateTrendRun(trendRunRows, collector.trendRunId,
              "failed", trendRunRows[collector.trendRunId].selected_topic)
        /\ collector' = [collector EXCEPT !.pc = "catchLog"]
        /\ UNCHANGED dbFailures
     \/ /\ DbMayFail
        /\ dbFailures' = dbFailures + 1
        /\ collector' = CollectorFinally(collector, "thrown")
        /\ UNCHANGED trendRunRows
  /\ UNCHANGED outsideCollector

\* The catch block's log settles; the alert is sent and null is returned.
CollectorCatchLogReturns ==
  /\ collector.pc = "catchLog"
  /\ \/ /\ collector' = CollectorFinally([collector EXCEPT !.alerted = TRUE],
                                          "returned")
        /\ UNCHANGED dbFailures
     \/ /\ DbMayFail
        /\ dbFailures' = dbFailures + 1
        /\ collector' = CollectorFinally(collector, "thrown")
  /\ UNCHANGED <<trendRunRows, outsideCollector>>

CollectorNext ==
  \/ CollectTrends
  \/ CollectTrendsWhileRunning
  \/ TrendRunCreateReturns
  \/ LogStartReturns
  \/ NaverReturns
  \/ YouTubeReturns
  \/ GoogleReturns
  \/ UpdateRunCompletedReturns
  \/ StoreTopicReturns
  \/ LogSelectedReturns
  \/ LogNoTopicReturns
  \/ CollectorCatchUpdateReturns
  \/ CollectorCatchLogReturns

CollectorSpec == Init /\ [][CollectorNext]_vars

\* ------------------------------------------------------------- triggers
\* The daily cron job and the WebSocket message 'trigger_trend_discovery'
\* call collectTrends of the TrendCollector of AdminServer (collector); POST
\* /trigger/trends calls it on the TrendCollector of admin/routes/api.ts,
\* whose run is followed here from await to await of its storage calls on
\* trend_runs only.
outsideApiCollector ==
  <<pipeline, dbFailures, collector, analysis, aggregation, numbers,
    normalization, polling, retrying>>

\* POST /trigger/trends: trendCollector.runOnce() finds the flag of its own
\* collector clear, sets it and inserts the trend run row.
PostTriggerTrends ==
  /\ ~apiCollector.isRunning
  /\ apiCollector.count < MaxApiCollections
  /\ apiCollector' = [ pc |-> "createRun", isRunning |-> TRUE,
                       count |-> apiCollector.count + 1, trendRunId |-> 0 ]
  /\ UNCHANGED <<trendRunRows, outsideApiCollector>>

\* trendRunModel.create({status: 'running'}) of that run settles; the
\* discovery follows.
ApiTrendRunCreateReturns ==
  /\ apiCollector.pc = "createRun"
  /\ trendRunRows' = Append(trendRunRows,
       [ status |-> "running", selected_topic |-> NULL,
         statuses |-> <<"running">> ])
  /\ apiCollector' = [apiCollector EXCEPT !.trendRunId = Len(trendRunRows) + 1,
                                          !.pc = "discoverTrends"]
  /\ UNCHANGED outsideApiCollector

\* The discovery of that run ends: the row is updated to completed in the
\* try block or to failed in the catch block, and finally clears the flag.
ApiCollectionEnds ==
  /\ apiCollector.pc = "discoverTrends"
  /\ \E status \in {"completed", "failed"} :
       trendRunRows' = UpdateTrendRun(trendRunRows, apiCollector.trendRunId,
                         status, trendRunRows[apiCollector.trendRunId].selected_topic)
  /\ apiCollector' = [apiCollector EXCEPT !.pc = "returned", !.isRunning = FALSE]
  /\ UNCHANGED outsideApiCollector

TriggerNext ==
  \/ CollectorNext
  \/ PostTriggerTrends
  \/ ApiTrendRunCreateReturns
  \/ ApiCollectionEnds

TriggerSpec == Init /\ [][TriggerNext]_vars

\* ------------------------------------------------- analyzeKeywordTrends
\* The state an analysis leaves alone.
outsideAnalysis ==
  <<pipeline, dbFailures, collector, trendRunRows, aggregation, numbers,
    services>>

\* analyzeKeywordTrends(keywords) is called with n keywords and issues the
\* interest request of the first one.
AnalyzeKeywordTrends(n) ==
  /\ analysis.pc = "idle"
  /\ analysis' = NewAnalysis(n, "interest", <<"request">>)
  /\ UNCHANGED outsideAnalysis

\* The loop goes to the next keyword and issues its interest request, or the
\* topics are returned.
NextKeyword(a, events) ==
  IF a.i < a.n
  THEN [a EXCEPT !.i = @ + 1, !.pc = "interest",
                 !.events = Append(events, "request")]
  ELSE [a EXCEPT !.pc = "returned", !.events = events]

\* if (i < keywords.length - 1) await new Promise(resolve => setTimeout(resolve, 500))
EndOfIteration(a) ==
  IF a.i < a.n THEN [a EXCEPT !.pc = "delay"] ELSE NextKeyword(a, a.events)

\* The interest request of keyword i settles.
InterestReturns ==
  /\ analysis.pc = "interest"
  /\ \E o \in InterestOutcomes :
       LET a == [analysis EXCEPT !.outcomes = Append(@, o)] IN
       analysis' =
         CASE o \in {"html", "empty"} -> NextKeyword(a, a.events)
           [] o = "error" -> NextKeyword(a, a.events)
           [] o = "low" -> EndOfIteration(a)
           [] o = "high" -> [a EXCEPT !.pc = "relatedQueries"]
  /\ UNCHANGED outsideAnalysis

\* getRelatedQueries settles (it catches its own errors); the topic is pushed.
RelatedQueriesReturns ==
  /\ analysis.pc = "relatedQueries"
  /\ analysis' = EndOfIteration([analysis EXCEPT !.topics = @ + 1])
  /\ UNCHANGED outsideAnalysis

\* The 500 ms timer of the delay fires.
DelayElapses ==
  /\ analysis.pc = "delay"
  /\ analysis' = NextKeyword(analysis, Append(analysis.events, "delay"))
  /\ UNCHANGED outsideAnalysis

AnalysisNext ==
  \/ \E n \in 1..MaxKeywords : AnalyzeKeywordTrends(n)
  \/ InterestReturns
  \/ RelatedQueriesReturns
  \/ DelayElapses

AnalysisSpec == Init /\ [][AnalysisNext]_vars

\* ------------------------------------------- aggregateMultiSourceTrends
\* aggregateMultiSourceTrends(googleTrends, naverTrends, youtubeTrends) runs
\* its three loops (it has no await before it returns).
AggregateMultiSourceTrends(googleTrends, naverTrends, youtubeTrends) ==
  /\ aggregation.pc = "idle"
  /\ \E keywordMap \in {KeywordMapOf(googleTrends, naverTrends, youtubeTrends)} :
       \E aggregatedTrends \in {WithAggregatedMetrics(keywordMap)} :
         aggregation' =
           [ pc |-> "returned", google |-> googleTrends, naver |-> naverTrends,
             youtube |-> youtubeTrends, keywordMap |-> keywordMap,
             aggregatedTrends |-> SortByAggregatedScore(aggregatedTrends) ]
  /\ UNCHANGED <<pipeline, dbFailures, collector, trendRunRows, analysis, numbers,
               services>>

\* Trends whose keywords vary.
AggregationNext ==
  /\ aggregation.pc = "idle"
  /\ \E g \in TrendLists(MaxGoogleTrends, {GoogleTrendOf(k) : k \in Keywords}),
        n \in TrendLists(MaxTrendsPerSource, {NaverTrendOf(k) : k \in Keywords}),
        y \in TrendLists(MaxYouTubeTrends, {YouTubeTrendOf(k) : k \in Keywords}) :
       AggregateMultiSourceTrends(g, n, y)

AggregationInit == InitWith(MaxRuns, Doubles)
AggregationSpec == AggregationInit /\ [][AggregationNext]_vars

\* Trends of one keyword whose metrics vary.
MetricsKeyword == <<"a", "b", "c", "d", "e", "f", "g", "h", "i", "j">>
MetricsNext ==
  /\ aggregation.pc = "idle"
  /\ \E g \in TrendLists(MaxMetricsTrends,
                         {GoogleTrend(MetricsKeyword, d) : d \in GoogleTrendData}),
        n \in TrendLists(MaxMetricsTrends,
                         {NaverTrend(MetricsKeyword, d) : d \in NaverTrendData}),
        y \in TrendLists(MaxMetricsTrends,
                         {YouTubeTrend(MetricsKeyword, d) : d \in YouTubeTrendData}) :
       AggregateMultiSourceTrends(g, n, y)

MetricsSpec == AggregationInit /\ [][MetricsNext]_vars

\* --------------------------------------------------------- normalizeKeyword
\* The state a call of a service on its own leaves alone.
outsideServices ==
  <<pipeline, dbFailures, collector, trendRunRows, analysis, aggregation, numbers,
    apiCollector>>

\* The strings of at most max characters of an alphabet.
Strings(alphabet, max) == UNION {[1..n -> alphabet] : n \in 0..max}
\* The characters of the strings handed to normalizeKeyword.
Alphabet == {"A", "_", " ", "!", "U+D55C", "U+0130", "U+13A0", "U+A78D"}

\* normalizeKeyword(keyword) returns, and is called again on what it returned.
NormalizeKeywordReturns(keyword) ==
  /\ normalization.pc = "idle"
  /\ \E once \in {NormalizeKeyword(keyword)} :
       normalization' = [ pc |-> "returned", keyword |-> keyword, once |-> once,
                          twice |-> NormalizeKeyword(once) ]
  /\ UNCHANGED <<outsideServices, polling, retrying>>

NormalizationNext ==
  \E keyword \in Strings(Alphabet, MaxKeywordLength) :
    NormalizeKeywordReturns(keyword)

NormalizationSpec == Init /\ [][NormalizationNext]_vars

\* ----------------------------------------------------------- pollTaskStatus
\* private readonly pollInterval, maxPollTime (ms)
PollInterval == 10000
MaxPollTime == 600000
\* How long a status request takes, and how late a timer fires (ms).
RequestDurations == {0, 5000}
TimerDelays == {0, 5000}
\* What a status request leads to: a status of the task, or a rejected
\* request.
TaskStatuses == {"pending", "processing", "completed", "failed"}
RequestOutcomes == TaskStatuses \cup {"error"}

\* A loop that never looks at the clock.
KeepsPollingAlways(elapsed) == TRUE

\* while (Date.now() - startTime < this.maxPollTime)
KeepsPolling(elapsed) == elapsed < MaxPollTime

\* The loop test, and what follows it up to the next await: a status request
\* or the timeout error.
PollLoop(p) ==
  IF KeepsPolling(p.elapsed)
  THEN [p EXCEPT !.pc = "getTaskStatus", !.requests = @ + 1,
                 !.polledAgain = p.failed]
  ELSE [p EXCEPT !.pc = "thrown", !.error = "Video generation timed out"]

\* pollTaskStatus(taskId, provider) is called.
PollTaskStatus ==
  /\ polling.pc = "idle"
  /\ polling' = PollLoop(polling)
  /\ UNCHANGED <<outsideServices, normalization, retrying>>

\* getTaskStatus settles. A completed task is returned; the error thrown for
\* a failed task is thrown inside the try block, so the catch block takes it
\* as it takes a rejected request; any other status waits.
GetTaskStatusReturns ==
  /\ polling.pc = "getTaskStatus"
  /\ \E outcome \in RequestOutcomes, duration \in RequestDurations :
       polling' =
         [polling EXCEPT
            !.elapsed = @ + duration,
            !.status = IF outcome = "error" THEN @ ELSE outcome,
            !.failed = @ \/ outcome = "failed",
            !.pc = IF outcome = "completed" THEN "returned"
                   ELSE IF outcome \in {"failed", "error"} THEN "catchWait"
                   ELSE "wait"]
  /\ UNCHANGED <<outsideServices, normalization, retrying>>

\* The timer of the try block or of the catch block fires, and the loop test
\* is made.
PollIntervalElapses ==
  /\ polling.pc \in {"wait", "catchWait"}
  /\ \E delay \in TimerDelays :
       polling' = PollLoop([polling EXCEPT !.elapsed = @ + PollInterval + delay])
  /\ UNCHANGED <<outsideServices, normalization, retrying>>

PollNext ==
  \/ PollTaskStatus
  \/ GetTaskStatusReturns
  \/ PollIntervalElapses

\* Every status request settles and every timer fires.
PollSpec == Init /\ [][PollNext]_vars /\ WF_vars(PollNext)

\* ------------------------------------------------------------- retry loops
\* private readonly maxRetries
MaxRetries == 3
\* callAnthropicAPI, callElevenLabsAPI and performVideoUpload.
RetryingServices == {"script", "tts", "upload"}
\* callAnthropicAPI and callElevenLabsAPI count attempt from 1 in a for loop;
\* performVideoUpload counts the failed attempts from 0 in a while loop.
ForLoopServices == {"script", "tts"}
\* What an API call leads to: a usable response, a response the service
\* cannot use (no text content, no response, no video id), a rejection.
ApiResults == {"result1", "result2"}
ApiRejections == {"rejected1", "rejected2"}
ApiOutcomes == ApiResults \cup {"unusable"} \cup ApiRejections
\* The error the catch block receives for an attempt that did not return.
UnusableResponse(service) ==
  CASE service = "script" -> "Invalid response format from Anthropic API"
    [] service = "tts" -> "No response from ElevenLabs API"
    [] service = "upload" -> "No video ID returned from YouTube API"
ErrorOfAttempt(service, outcome) ==
  IF outcome = "unusable" THEN UnusableResponse(service) ELSE outcome

RECURSIVE Pow2(_)
\* Math.pow(2, attempt)
Pow2(n) == IF n = 0 THEN 1 ELSE 2 * Pow2(n - 1)
\* const delay = Math.pow(2, attempt) * 1000
BackoffDelay(attempt) == Pow2(attempt) * 1000

\* A catch block that waits after every failed attempt.
BacksOffAlways(attempt) == TRUE

\* if (attempt < this.maxRetries), the test of the catch block of the for
\* loops
BacksOff(attempt) == attempt < MaxRetries
\* if (attempt >= this.maxRetries) throw error, the test of the catch block
\* of performVideoUpload, made after attempt++
GivesUp(attempt) == attempt >= MaxRetries

\* The test of the for loop, and what follows it up to the next await: an
\* API call, or throw lastError.
ForLoop(r) ==
  IF r.attempt <= MaxRetries
  THEN [r EXCEPT !.pc = "call"]
  ELSE [r EXCEPT !.pc = "thrown", !.error = r.lastError]

\* The test of the while loop of performVideoUpload.
WhileLoop(r) ==
  IF r.attempt < MaxRetries
  THEN [r EXCEPT !.pc = "call"]
  ELSE [r EXCEPT !.pc = "thrown", !.error = "All upload attempts failed"]

\* callAnthropicAPI, callElevenLabsAPI or performVideoUpload is called.
CallWithRetries(service) ==
  /\ retrying.pc = "idle"
  /\ retrying' =
       IF service \in ForLoopServices
       THEN ForLoop([retrying EXCEPT !.service = service, !.attempt = 1])
       ELSE WhileLoop([retrying EXCEPT !.service = service, !.attempt = 0])
  /\ UNCHANGED <<outsideServices, normalization, polling>>

\* The catch block of a for loop: lastError is set, and the loop waits or
\* goes on to attempt++ and the loop test.
ForLoopCatch(r, error) ==
  LET caught == [r EXCEPT !.lastError = error]
  IN  IF BacksOff(r.attempt)
      THEN [caught EXCEPT !.pc = "backoff",
              !.waits = Append(@, [delay |-> BackoffDelay(r.attempt),
                                   after |-> Len(r.attempts)])]
      ELSE ForLoop([caught EXCEPT !.attempt = @ + 1])

\* The catch block of performVideoUpload: attempt++, then the error is
\* thrown again or the loop waits.
WhileLoopCatch(r, error) ==
  LET counted == [r EXCEPT !.attempt = @ + 1]
  IN  IF GivesUp(counted.attempt)
      THEN [counted EXCEPT !.pc = "thrown", !.error = error]
      ELSE [counted EXCEPT !.pc = "backoff",
              !.waits = Append(@, [delay |-> BackoffDelay(counted.attempt),
                                   after |-> Len(r.attempts)])]

\* The API call of an attempt settles: a usable response is returned, any
\* other outcome reaches the catch block.
ApiCallSettles(outcome) ==
  /\ retrying.pc = "call"
  /\ LET made == [retrying EXCEPT !.attempts = Append(@, outcome)]
     IN  retrying' =
           IF outcome \in ApiResults
           THEN [made EXCEPT !.pc = "returned", !.result = outcome]
           ELSE IF made.service \in ForLoopServices
           THEN ForLoopCatch(made, ErrorOfAttempt(made.service, outcome))
           ELSE WhileLoopCatch(made, ErrorOfAttempt(made.service, outcome))
  /\ UNCHANGED <<outsideServices, normalization, polling>>

\* The backoff timer fires: the for loop counts the attempt, and the loop
\* test is made.
BackoffElapses ==
  /\ retrying.pc = "backoff"
  /\ retrying' =
       IF retrying.service \in ForLoopServices
       THEN ForLoop([retrying EXCEPT !.attempt = @ + 1])
       ELSE WhileLoop(retrying)
  /\ UNCHANGED <<outsideServices, normalization, polling>>

RetryNext ==
  \/ \E service \in RetryingServices : CallWithRetries(service)
  \/ \E outcome \in ApiOutcomes : ApiCallSettles(outcome)
  \/ BackoffElapses

RetrySpec == Init /\ [][RetryNext]_vars

\* ------------------------------------------------------------------ spec
Next ==
  \/ \E t \in CustomTopics, sv \in BOOLEAN, su \in BOOLEAN :
       StartCreateVideoJob(t, sv, su)
  \/ \E t \in ScriptTopics, sv \in BOOLEAN, su \in BOOLEAN :
       StartCreateVideoJobWithScript(t, sv, su)
  \/ \E j \in 1..MaxRuns : StartRetryJob(j)
  \/ \E r \in RunIds : DiscoverTrendsReturns(r)
  \/ \E r \in RunIds : CreateTrendRunReturns(r)
  \/ \E r \in RunIds : CreateJobReturns(r)
  \/ \E r \in RunIds : GenerateScriptReturns(r)
  \/ \E r \in RunIds : UpdateScriptReturns(r)
  \/ \E r \in RunIds : GenerateNarrationReturns(r)
  \/ \E r \in RunIds : UpdateNarrationReturns(r)
  \/ \E r \in RunIds : GenerateVideoReturns(r)
  \/ \E r \in RunIds : UpdateVideoReturns(r)
  \/ \E r \in RunIds : GenerateThumbnailsReturns(r)
  \/ \E r \in RunIds : UploadToYouTubeReturns(r)
  \/ \E r \in RunIds : UpdateCompletedReturns(r)
  \/ \E r \in RunIds : LogSuccessReturns(r)
  \/ \E r \in RunIds : CatchUpdateReturns(r)
  \/ \E r \in RunIds : CatchLogReturns(r)
  \/ \E r \in RunIds : WsCreateJobReturns(r)
  \/ \E r \in RunIds : WsGenerateNarrationReturns(r)
  \/ \E r \in RunIds : WsUpdateNarrationReturns(r)
  \/ \E r \in RunIds : WsGenerateVideoReturns(r)
  \/ \E r \in RunIds : WsUpdateVideoReturns(r)
  \/ \E r \in RunIds : WsGenerateThumbnailsReturns(r)
  \/ \E r \in RunIds : WsUploadVideoReturns(r)
  \/ \E r \in RunIds : WsSaveUploadReturns(r)
  \/ \E r \in RunIds : WsUpdateCompletedReturns(r)
  \/ \E r \in RunIds : RetryGetByIdReturns(r)
  \/ \E j \in timers : TimerFires(j)
  \/ Restart

Spec == Init /\ [][Next]_vars

\* The orchestrator with its housekeeping sweep and the passing of time, for
\* the calls of one caller.
HousekeepingInit == InitState(HousekeepingRuns)
HousekeepingNext ==
  \/ Next
  \/ \E j \in DOMAIN activeJobs : HourPasses(j)
  \/ PerformHousekeeping
HousekeepingSpec == HousekeepingInit /\ [][HousekeepingNext]_vars

\* The steps of run r: at most one is enabled, the one its await point names.
RunStep(r) ==
  /\ r \in RunIds
  /\ \/ DiscoverTrendsReturns(r) \/ CreateTrendRunReturns(r)
     \/ CreateJobReturns(r) \/ GenerateScriptReturns(r)
     \/ UpdateScriptReturns(r) \/ GenerateNarrationReturns(r)
     \/ UpdateNarrationReturns(r) \/ GenerateVideoReturns(r)
     \/ UpdateVideoReturns(r) \/ GenerateThumbnailsReturns(r)
     \/ UploadToYouTubeReturns(r) \/ UpdateCompletedReturns(r)
     \/ LogSuccessReturns(r) \/ CatchUpdateReturns(r) \/ CatchLogReturns(r)
     \/ WsCreateJobReturns(r) \/ WsGenerateNarrationReturns(r)
     \/ WsUpdateNarrationReturns(r) \/ WsGenerateVideoReturns(r)
     \/ WsUpdateVideoReturns(r) \/ WsGenerateThumbnailsReturns(r)
     \/ WsUploadVideoReturns(r) \/ WsSaveUploadReturns(r)
     \/ WsUpdateCompletedReturns(r) \/ RetryGetByIdReturns(r)

\* Every awaited promise settles (collaborators bound their own retries and
\* polls, storage calls return) and the event loop runs every due timer.
FairInit == InitState(FairRuns)
FairSpec ==
  /\ FairInit
  /\ [][Next]_vars
  /\ \A r \in 1..MaxRuns : WF_vars(RunStep(r))
  /\ \A j \in 1..MaxRuns : WF_vars(TimerFires(j))

\* ================================================================ claims
Terminal == {"completed", "failed"}

\* Position of a status in the stage order
\* Created -> ScriptGeneration -> Narration -> VideoSynthesis ->
\* ThumbnailGeneration -> Upload -> Completed.
StatusRank(st) ==
  CASE st = "created" -> 0
    [] st = "script_generation" -> 1
    [] st = "narration" -> 2
    [] st = "video_synthesis" -> 3
    [] st = "thumbnail_generation" -> 4
    [] st = "youtube_upload" -> 5
    [] st = "completed" -> 6
    [] OTHER -> 7

\* The run has returned or thrown (it was not cut off by a restart).
Settled(run) == run.pc \in {"returned", "thrown"}

\* Job j has a call of `stage` in its history.
Called(j, stage) == \E i \in 1..Len(calls[j]) : calls[j][i].stage = stage
SomeCallFailed(j) == \E i \in 1..Len(calls[j]) : calls[j][i].result = "failed"

\* C1: the persisted status of every job only moves forward through the
\* stage order; the only other transition is to failed, from a non-terminal
\* status; once completed or failed is persisted the status never changes.
C1_StatusOnlyMovesForward ==
  \A j \in JobIds : \A i \in 1..(Len(statusLog[j]) - 1) :
    LET a == statusLog[j][i]
        b == statusLog[j][i + 1]
    IN  /\ a \in Terminal => b = a
        /\ a \notin Terminal => (b = "failed" \/ StatusRank(b) >= StatusRank(a))

\* C2: a job of a settled run in which a stage collaborator call failed is
\* persisted as failed with an error message, and is never completed (stated
\* for the behaviours in which no storage call rejects).
C2_CollaboratorFailureFinalizesFailed ==
  \A r \in RunIds :
    (/\ dbFailures = 0 /\ Settled(runs[r]) /\ runs[r].jobId # 0
     /\ SomeCallFailed(runs[r].jobId)) =>
      /\ jobs[runs[r].jobId].status = "failed"
      /\ jobs[runs[r].jobId].error_message # NULL

\* C3: when the script collaborator call of createVideoJob failed and the
\* call has settled, the job is persisted as failed, its error_message is
\* non-empty, and narration and video synthesis were never called for it
\* (stated for the behaviours in which no storage call rejects).
C3_ScriptFailureStops ==
  \A r \in RunIds :
    LET j == runs[r].jobId IN
    (dbFailures = 0 /\ Settled(runs[r]) /\ j # 0
       /\ runs[r].kind # "createVideoJobWithScript"
       /\ calls[j][1] = [stage |-> "script_generation", result |-> "failed"]) =>
      /\ jobs[j].status = "failed"
      /\ jobs[j].error_message \notin {NULL, ""}
      /\ ~Called(j, "narration")
      /\ ~Called(j, "video_synthesis")

\* C4: within one job every stage collaborator is called at most once, and
\* no stage collaborator is called after a collaborator call has failed.
C4_NoCallAfterFailure ==
  \A j \in JobIds : \A i, k \in 1..Len(calls[j]) :
    i < k => /\ calls[j][i].stage # calls[j][k].stage
             /\ calls[j][i].result # "failed"

StageIndex(stage) == CHOOSE i \in 1..Len(Stages) : Stages[i] = stage

\* C5: within one job the collaborators are called in stage order, each only
\* after every earlier call has returned successfully, so that no two calls
\* of a job are in flight together.
C5_StagesStrictlySequential ==
  \A j \in JobIds : \A i, k \in 1..Len(calls[j]) :
    i < k => /\ StageIndex(calls[j][i].stage) < StageIndex(calls[j][k].stage)
             /\ calls[j][i].result = "ok"

\* C6: a job run with skipVideoGeneration never has the video collaborator
\* called, keeps video_file_path and the result's video unset, and is
\* completed when its call returns.
C6_SkipVideoNeverSynthesizes ==
  \A r \in RunIds :
    LET j == runs[r].jobId IN
    (runs[r].skipVideoGeneration /\ j # 0) =>
      /\ ~Called(j, "video_synthesis")
      /\ jobs[j].video_file_path = NULL
      /\ ~runs[r].video
      /\ runs[r].pc = "returned" => jobs[j].status = "completed"
C6_Witness ==
  \E r1, r2 \in RunIds :
    /\ runs[r1].kind = "createVideoJob" /\ runs[r2].kind = "createVideoJobWithScript"
    /\ \A r \in {r1, r2} :
         /\ runs[r].skipVideoGeneration /\ runs[r].pc = "returned"
         /\ jobs[runs[r].jobId].status = "completed"

\* The job a retry created: new id, the failed job's topic, first persisted
\* status `first`, no stage output at creation, the failed row untouched.
RetryCreatesFreshJob(first) ==
  \A r \in RunIds :
    LET j == runs[r].jobId IN
    (runs[r].kind = "retryJob" /\ j # 0) =>
      /\ j # runs[r].retryOf
      /\ jobs[j].topic = runs[r].job.topic
      /\ statusLog[j][1] = first
      /\ runs[r].pc = "generateScript" =>
           jobs[j] = NewJob(first, runs[r].job.topic, NULL)
      /\ runs[r].job.status = "failed"
      /\ jobs[runs[r].retryOf] = runs[r].job

C8_AbandonedJobCanBeRetried ==
  \A r, r0 \in RunIds :
    (/\ runs[r].kind = "retryJob" /\ runs[r0].pc = "abandoned"
     /\ runs[r0].jobId = runs[r].retryOf /\ runs[r0].epoch < runs[r].epoch) =>
      runs[r].error.message # "Job is not in failed status"

\* C9 as stated: the percents written for a job never decrease, up to and
\* including the update that marks it terminal.
C9_ProgressNeverDecreases ==
  \A j \in JobIds : \A i \in 1..(Len(progressLog[j]) - 1) :
    progressLog[j][i + 1].progress >= progressLog[j][i].progress
\* C9 amended: the percents written for a job never decrease, except that
\* the update that marks it failed, always the last one, writes 0.
C9_ProgressNeverDecreasesUntilFailed ==
  \A j \in JobIds : \A i \in 1..(Len(progressLog[j]) - 1) :
    \/ progressLog[j][i + 1].progress >= progressLog[j][i].progress
    \/ /\ progressLog[j][i + 1] = UpdateJobProgressEntry("failed", 0)
       /\ i + 1 = Len(progressLog[j])
C9_Witness ==
  \E j1, j2 \in JobIds :
    /\ Len(progressLog[j1]) = 6 /\ progressLog[j1][6].progress = 100
    /\ Len(progressLog[j2]) >= 4
    /\ progressLog[j2][Len(progressLog[j2])].currentStep = "failed"

\* C10: once a job is terminal, or its call has settled, its JobProgress
\* entry is eventually gone from activeJobs (getJobProgress returns null).
JobOver(j) ==
  /\ j \in JobIds
  /\ \/ jobs[j].status \in Terminal
     \/ \E r \in RunIds : runs[r].jobId = j /\ Settled(runs[r])
C10_ProgressEventuallyRemoved ==
  \A j \in 1..MaxRuns : JobOver(j) ~> (GetJobProgress(j) = NoProgress)
C10_Witness ==
  \E j \in JobIds :
    /\ restarts = 0 /\ jobs[j].status = "failed"
    /\ j \notin timers /\ GetJobProgress(j) = NoProgress

\* C11: every JobProgress entry performHousekeeping deleted was terminal
\* (currentStep completed or failed); the entry of a running job is never
\* deleted by the sweep.
C11_SweepEvictsOnlyTerminal ==
  \A e \in swept : e.currentStep \in Terminal

\* C12: a createVideoJob run in which every stage collaborator call
\* succeeded, so that only a storage write of a stage's output can have
\* rejected, returns its result and does not leave its job failed.
C12_WriteErrorDoesNotFailJob ==
  \A r \in RunIds :
    LET j == runs[r].jobId IN
    (/\ Settled(runs[r]) /\ j # 0 /\ Len(calls[j]) > 0
     /\ runs[r].kind # "createVideoJobWithScript"
     /\ \A i \in 1..Len(calls[j]) : calls[j][i].result = "ok") =>
      /\ runs[r].pc = "returned"
      /\ jobs[j].status # "failed"

\* ---------------------------------------------------------------- trends
Sources == {"naver", "youtube", "google"}
\* discoverTrends has returned in the current collectTrends call.
Discovered(c) == c.fetched = Sources
\* The keywords of the static fallback list.
FallbackKeywords ==
  {list[i].keyword : list \in FallbackResults, i \in 1..2}
\* The fallback list was pushed into allTopics.
UsedFallback(c) ==
  \E i \in 1..Len(c.allTopics) : c.allTopics[i].keyword \in FallbackKeywords
\* The sources the topics of the run came from.
Contributors(c) == {c.allTopics[i].source : i \in 1..Len(c.allTopics)}

\* C13: a collectTrends call that returned without a storage error, and in
\* which exactly one source returned topics, has recorded its run as
\* completed and has selected one of that source's topics.
C13_SingleSourceStillSelects ==
  (/\ collector.pc = "returned" /\ dbFailures = 0 /\ Discovered(collector)
   /\ ~UsedFallback(collector)
   /\ Cardinality(Contributors(collector)) = 1) =>
    /\ trendRunRows[collector.trendRunId].status = "completed"
    /\ collector.selectedTopic # NoTopic
    /\ \E i \in 1..Len(collector.allTopics) :
         collector.allTopics[i] = collector.selectedTopic

C15_SourcesFetchedInParallel ==
  collector.fetched # {} => collector.started = Sources

\* C16: a collectTrends call whose discovery selected no topic does not record
\* its run as completed, and it sends the alert.
C16_NoTopicAbortsRun ==
  (/\ collector.pc = "returned" /\ Discovered(collector)
   /\ collector.selectedTopic = NoTopic) =>
    /\ trendRunRows[collector.trendRunId].status # "completed"
    /\ collector.alerted

\* C17: every trend run starts as running and is finalized once, to
\* completed or failed; completed is never rewritten to failed, and no run
\* is running after its collectTrends call returned.
C17_TrendRunFinalizedOnce ==
  \A id \in 1..Len(trendRunRows) :
    LET st == trendRunRows[id].statuses IN
    /\ st[1] = "running"
    /\ Len(st) <= 2
    /\ \A i \in 2..Len(st) : st[i] \in {"completed", "failed"}
    /\ (collector.pc = "returned" \/ id < collector.trendRunId)
         => trendRunRows[id].status # "running"

\* C18: in analyzeKeywordTrends no two interest requests follow each other
\* without the delay between them, whatever happened to the earlier keyword.
C18_DelayBetweenInterestRequests ==
  \A k \in 1..(Len(analysis.events) - 1) :
    ~(analysis.events[k] = "request" /\ analysis.events[k + 1] = "request")

\* The topics the sources and the fallback list can hand in.
TopicsInUse ==
  UNION {{list[i] : i \in 1..Len(list)} :
           list \in NaverResults \cup YouTubeResults \cup GoogleResults
                      \cup FallbackResults}
\* finalScore as selectFinalTopic computes it, in doubles.
DoubleFinalScore(t) ==
  DoubleAdd(
    DoubleAdd(
      DoubleMultiply(DoubleOf(t.predictedViews), Literal(6, 10)),
      DoubleMultiply(DoubleMultiply(Literal(t.volatility, 100), DoubleOf(100)),
                     Literal(25, 100))),
    DoubleMultiply(
      DoubleMultiply(DoubleSubtract(One, Literal(t.competitiveness, 100)),
                     DoubleOf(100)),
      Literal(15, 100)))
\* FinalScore orders the topics in use, ties included, as the doubles do.
ScaledScoresAgree ==
  \A t1, t2 \in TopicsInUse :
    (FinalScore(t1) < FinalScore(t2))
      <=> DoubleLess(DoubleFinalScore(t1), DoubleFinalScore(t2))

\* The topics discoverTrends returned.
ReturnedTopics(c) == {c.topics[i] : i \in 1..Len(c.topics)}
\* 0.6 * predictedViews + 0.25 * (volatility * 100)
\*   + 0.15 * ((1 - competitiveness) * 100), times 100.
WeightedScore(views, volatility, competitiveness) ==
  60 * views + 25 * volatility + 15 * (100 - competitiveness)
ScoreOf(t) == WeightedScore(t.predictedViews, t.volatility, t.competitiveness)

\* C28: the topic selected among the topics handed to the selection is one of
\* them, and none of them has a higher finalScore
\* 0.6 * predictedViews + 0.25 * (volatility * 100)
\*   + 0.15 * ((1 - competitiveness) * 100).
C28_SelectsHighestFinalScore ==
  collector.topics # <<>> =>
    /\ collector.selectedTopic \in ReturnedTopics(collector)
    /\ \A t \in ReturnedTopics(collector) :
         ScoreOf(t) <= ScoreOf(collector.selectedTopic)
C28_Witness ==
  /\ collector.selectedTopic.keyword = "High Views"
  /\ \E t \in ReturnedTopics(collector) : t.keyword = "Low Views"
  /\ \E t \in ReturnedTopics(collector) :
       /\ t.keyword = "yt1"
       /\ ScoreOf(t) < ScoreOf(collector.selectedTopic)

\* The places in the discovery order of the returned topics of highest
\* finalScore.
HighestScored(c) ==
  {i \in 1..Len(c.allTopics) :
     /\ c.allTopics[i] \in ReturnedTopics(c)
     /\ \A t \in ReturnedTopics(c) : ScoreOf(t) <= ScoreOf(c.allTopics[i])}

\* C29: of the topics that tie for the highest finalScore, the one discovered
\* first in the run is selected.
C29_TieBrokenByFirstDiscovered ==
  collector.topics # <<>> =>
    \E i \in HighestScored(collector) :
      /\ collector.selectedTopic = collector.allTopics[i]
      /\ \A j \in HighestScored(collector) : i <= j

Observations ==
  ({"google"} \X (1..Len(aggregation.google)))
    \cup ({"naver"} \X (1..Len(aggregation.naver)))
    \cup ({"youtube"} \X (1..Len(aggregation.youtube)))
KeywordOf(o) == aggregation[o[1]][o[2]].keyword
\* The position in the keywordMap of the cluster observation o was put in.
ClusterOf(o) ==
  CHOOSE i \in 1..Len(aggregation.keywordMap.values) :
    o \in aggregation.keywordMap.values[i].observations

\* C19: two trends whose normalized keywords are identical are in the same
\* cluster, whatever their sources and their places in the arguments.
C19_SameNormalizedKeywordSameCluster ==
  \A o1, o2 \in Observations :
    NormalizeKeyword(KeywordOf(o1)) = NormalizeKeyword(KeywordOf(o2))
      => ClusterOf(o1) = ClusterOf(o2)
C19_Witness ==
  /\ aggregation.pc = "returned"
  /\ Len(aggregation.keywordMap.keys) = 2
  /\ \E o1, o2 \in Observations :
       /\ o1[1] = "naver" /\ o2[1] = "youtube"
       /\ KeywordOf(o1) # KeywordOf(o2)
       /\ NormalizeKeyword(KeywordOf(o1)) = NormalizeKeyword(KeywordOf(o2))
       /\ ClusterOf(o1) = 1 /\ ClusterOf(o2) = 1
       /\ aggregation.keywordMap.keys[1] # NormalizeKeyword(KeywordOf(o1))
       /\ Matches(NormalizeKeyword(KeywordOf(o1)), aggregation.keywordMap.keys[2])

\* The decisions taken for the trends of the sources that search for a similar
\* key, and what the map held when each was taken.
Decisions ==
  {aggregation.keywordMap.decisions[i] :
     i \in 1..Len(aggregation.keywordMap.decisions)}
NoExactMatch(d) ==
  \A k \in 1..d.size :
    aggregation.keywordMap.keys[k] # NormalizeKeyword(KeywordOf(<<d.source, d.n>>))
AtLeastThreshold(similarity) == similarity.num * 10 >= 7 * similarity.den
SimilarityTo(d, k) ==
  Similarities[NormalizeKeyword(KeywordOf(<<d.source, d.n>>))]
              [aggregation.keywordMap.keys[k]]

\* C20: a Naver or YouTube trend with no exact-match cluster is attached to
\* an existing cluster if its similarity to some existing cluster keyword is
\* at least 0.7 (0.7 included), and becomes a new cluster if its similarity
\* to every existing cluster keyword is below 0.7.
C20_ThresholdDecidesCluster ==
  \A d \in Decisions :
    (d.source # "google" /\ NoExactMatch(d)) =>
      IF \E k \in 1..d.size : AtLeastThreshold(SimilarityTo(d, k))
      THEN d.at <= d.size
      ELSE d.at = d.size + 1

\* Whether similarity a is at least similarity b.
AtLeast(a, b) == a.num * b.den >= b.num * a.den
\* The trend of a decision was put in an entry the map already had.
Attached(d) == d.at <= d.size
\* The trend of a decision made the entry it was put in.
Created(d) == d.at = d.size + 1

\* C21: a Naver or YouTube trend with no exact-match cluster that is attached
\* to an existing cluster is attached to the one whose keyword is most similar
\* to its own, and every cluster keeps the keyword of the trend that made it.
C21_AttachedToBestMatch ==
  /\ \A d \in Decisions :
       (d.source # "google" /\ NoExactMatch(d) /\ Attached(d)) =>
         \A k \in 1..d.size : AtLeast(SimilarityTo(d, d.at), SimilarityTo(d, k))
  /\ \A d \in Decisions :
       Created(d) =>
         aggregation.keywordMap.values[d.at].keyword = KeywordOf(<<d.source, d.n>>)

\* The clusters aggregateMultiSourceTrends returns.
Clusters ==
  {aggregation.aggregatedTrends[i] : i \in 1..Len(aggregation.aggregatedTrends)}

\* C22: trends whose keyword is empty after normalization are in no cluster,
\* and no cluster returned has a keyword that normalizes to the empty string.
C22_EmptyKeywordsDiscarded ==
  \A cluster \in Clusters :
    /\ NormalizeKeyword(cluster.keyword) # <<>>
    /\ \A o \in cluster.observations : NormalizeKeyword(KeywordOf(o)) # <<>>

\* Every trend handed in has a keyword that normalization leaves non-empty.
NoEmptyKeyword ==
  \A o \in Observations : NormalizeKeyword(KeywordOf(o)) # <<>>

\* The priority of a source: Naver, then YouTube, then Google.
SourceRank(source) ==
  IF source = "naver" THEN 1 ELSE IF source = "youtube" THEN 2 ELSE 3
\* The sources of the trends put in a cluster.
DistinctSources(cluster) == {o[1] : o \in cluster.observations}
EarliestSource(cluster) ==
  CHOOSE source \in DistinctSources(cluster) :
    \A other \in DistinctSources(cluster) : SourceRank(source) <= SourceRank(other)

\* C23: the trends are processed in the order Naver, YouTube, Google, and the
\* keyword of a cluster is the raw keyword of one of its trends from the
\* earliest source in that order (for trends with non-empty keywords).
C23_FixedSourceOrder ==
  NoEmptyKeyword =>
  /\ \A i, j \in 1..Len(aggregation.keywordMap.decisions) :
       i < j => SourceRank(aggregation.keywordMap.decisions[i].source)
                  <= SourceRank(aggregation.keywordMap.decisions[j].source)
  /\ \A cluster \in Clusters :
       \E o \in cluster.observations :
         o[1] = EarliestSource(cluster) /\ KeywordOf(o) = cluster.keyword

\* The confidence of a cluster whose trends come from several sources, or
\* from one, given what its Naver and YouTube data hold.
ConfidenceOf(cluster, several) ==
  numbers.confidences
    [several]
    ["naver" \in DistinctSources(cluster)]
    [Present(cluster.sourceData.youtube)
       /\ cluster.sourceData.youtube.trendScore > 1000000]
    [Present(cluster.sourceData.naver) /\ cluster.sourceData.naver.growth > 100]

\* C24: a cluster is cross-validated exactly if its trends come from more
\* than one distinct source, and the confidence of a cluster fed by one
\* source holds no multi-source boost (for trends with non-empty keywords).
C24_CrossValidationIffSeveralSources ==
  NoEmptyKeyword => \A cluster \in Clusters :
    /\ cluster.crossPlatformValidation = (Cardinality(DistinctSources(cluster)) > 1)
    /\ Cardinality(DistinctSources(cluster)) = 1 =>
         cluster.confidence = ConfidenceOf(cluster, FALSE)

\* The confidence of every cluster lies within [0, 1].
ConfidenceInRange ==
  \A cluster \in Clusters :
    ~DoubleLess(cluster.confidence, Zero) /\ ~DoubleLess(One, cluster.confidence)

\* C25: the confidence of a cluster lies within [0, 1] and is
\* min(1.0, 0.5 + 0.3 if it has more than one source + 0.2 if Naver is
\* present + 0.1 if the YouTube trendScore exceeds 1,000,000 + 0.1 if the
\* Naver growth exceeds 100), for trends with non-empty keywords.
C25_ConfidenceFormula ==
  NoEmptyKeyword =>
  /\ ConfidenceInRange
  /\ \A cluster \in Clusters :
       cluster.confidence =
         ConfidenceOf(cluster, Cardinality(DistinctSources(cluster)) > 1)

\* The metric of each source of a cluster that enters its aggregatedScore,
\* and ten times the weight of the source.
Metrics(cluster) ==
  LET data == cluster.sourceData
  IN  (IF Present(data.google)
       THEN {[metric |-> data.google.score, weight |-> 10]} ELSE {})
      \cup (IF Present(data.naver)
            THEN {[metric |-> data.naver.searchVolume, weight |-> 15]} ELSE {})
      \cup (IF Present(data.youtube)
            THEN {[metric |-> NormalizedScore(data.youtube.viewCount), weight |-> 12]}
            ELSE {})
\* The weighted mean of the metrics, as the double nearest to it.
WeightedMean(metrics) ==
  LET Of(weight) ==
        IF \E x \in metrics : x.weight = weight
        THEN (CHOOSE x \in metrics : x.weight = weight).metric ELSE 0
      Weight(weight) == IF \E x \in metrics : x.weight = weight THEN weight ELSE 0
  IN  IF metrics = {} THEN Zero
      ELSE DoubleDivide(DoubleOf(10 * Of(10) + 15 * Of(15) + 12 * Of(12)),
                        DoubleOf(Weight(10) + Weight(15) + Weight(12)))

\* Two doubles differ by at most a billionth of the smaller one.
Close(a, b) ==
  LET low == IF DoubleLess(a, b) THEN a ELSE b
      high == IF DoubleLess(a, b) THEN b ELSE a
  IN  ~DoubleLess(DoubleMultiply(low, Literal(1, 10^9)), DoubleSubtract(high, low))

\* The aggregatedScore of every cluster is close to the weighted mean.
AggregatedScoreNearMean ==
  \A cluster \in Clusters :
    Close(cluster.aggregatedScore, WeightedMean(Metrics(cluster)))

\* C26: the aggregatedScore of a cluster is the mean of the metrics of its
\* sources weighted 1.5 (Naver), 1.2 (YouTube) and 1.0 (Google); that of a
\* cluster with exactly one source is the metric of that source.
C26_AggregatedScoreIsWeightedMean ==
  \A cluster \in Clusters :
    /\ AggregatedScoreNearMean
    /\ \A x \in Metrics(cluster) :
         Cardinality(Metrics(cluster)) = 1 =>
           cluster.aggregatedScore = DoubleOf(x.metric)

\* C27: the trendVelocity of a cluster with a Naver trend is growth / 100,
\* whatever the growth; it is the YouTube rate only without a Naver trend,
\* and 0.5 only with neither.
C27_VelocityFromNaverFirst ==
  \A cluster \in Clusters :
    LET naver == cluster.sourceData.naver
        youtube == cluster.sourceData.youtube
    IN  cluster.trendVelocity =
          IF Present(naver) THEN numbers.growthVelocities[naver.growth]
          ELSE IF Present(youtube)
          THEN numbers.engagementVelocities[
                 [ viewCount |-> youtube.viewCount, likeCount |-> youtube.likeCount,
                   commentCount |-> youtube.commentCount,
                   sincePublished |-> youtube.sincePublished ]]
          ELSE numbers.defaultVelocity

\* ----------------------------------------------------------------- retryJob
\* The getById of retry r settles in this step, for a job id without a row or
\* for a row whose status is not failed.
RetryOfUnfitJob(r) ==
  /\ runs[r].kind = "retryJob" /\ runs[r].pc = "retryGetById"
  /\ runs'[r].pc # "retryGetById" /\ runs'[r].pc # "abandoned"
  /\ dbFailures' = dbFailures
  /\ \/ runs[r].retryOf \notin JobIds
     \/ jobs[runs[r].retryOf].status # "failed"

\* C32: retryJob on a job id that has no row, or on a job whose status is not
\* failed, rejects and changes nothing: no job row, no trend run, no
\* collaborator call, no progress entry; and the call does nothing later.
C32_RetryOfUnfitJobHasNoEffect ==
  [][\A r \in RunIds :
       /\ RetryOfUnfitJob(r) =>
            /\ runs'[r].pc = "thrown" /\ runs'[r].error.isError
            /\ runs'[r].jobId = 0
            /\ UNCHANGED <<jobs, trendRuns, calls, activeJobs, statusLog,
                           progressLog, timers>>
       /\ (runs[r].kind = "retryJob" /\ runs[r].pc = "thrown") =>
            runs'[r] = runs[r]]_vars
C32_Witness ==
  \E r \in RunIds :
    /\ runs[r].kind = "retryJob" /\ runs[r].pc = "thrown"
    /\ runs[r].error.message = "Job is not in failed status"
    /\ runs[r].job.status = "completed"
    /\ jobs[runs[r].retryOf].status = "completed"
    /\ Len(jobs) = 1 /\ trendRuns = 1

\* ----------------------------------------------------------- pollTaskStatus
\* C33: once a status request has reported the task as failed, pollTaskStatus
\* has thrown 'Video generation failed', without another status request and
\* without waiting.
C33_FailedTaskStopsPolling ==
  polling.failed =>
    /\ polling.pc = "thrown"
    /\ polling.error = "Video generation failed"
    /\ ~polling.polledAgain

\* The status requests a call can make: one every pollInterval until
\* maxPollTime.
MaxRequests == MaxPollTime \div PollInterval
PollEnded == polling.pc \in {"returned", "thrown"}

\* C34: pollTaskStatus makes at most maxPollTime / pollInterval = 60 status
\* requests, whatever they return; it ends, given that every request settles,
\* and then it has returned a completed status or thrown the timeout error
\* after maxPollTime.
C34_PollLoopBounded ==
  /\ [](polling.requests <= MaxRequests)
  /\ [](polling.pc = "returned" => polling.status = "completed")
  /\ [](polling.pc = "thrown" =>
         /\ polling.error = "Video generation timed out"
         /\ polling.elapsed >= MaxPollTime)
  /\ <>PollEnded
C34_Witness ==
  /\ polling.pc = "thrown" /\ polling.requests = MaxRequests
  /\ polling.status = NULL /\ polling.elapsed = MaxPollTime

\* ------------------------------------------------------------ collectTrends
\* A collectTrends call is between its first statement and its end.
CollectionInProgress == collector.pc \notin {"idle", "returned", "thrown"}
\* A collectTrends call made during a collection returns.
RefusedCall == collector'.refused = collector.refused + 1

\* C36: while a collectTrends call of a TrendCollector is in progress, any
\* other call returns null and neither creates a trend run nor starts a
\* discovery; the flag is set exactly while a call is in progress, so it is
\* cleared when the run ends, however it ends, and the next call is taken.
C36_CollectTrendsMutuallyExclusive ==
  /\ [](collector.isRunning <=> CollectionInProgress)
  /\ [][/\ RefusedCall =>
             /\ CollectionInProgress
             /\ trendRunRows' = trendRunRows
             /\ collector' = [collector EXCEPT !.refused = @ + 1]
        /\ collector'.count # collector.count =>
             /\ ~CollectionInProgress
             /\ collector'.isRunning
             /\ collector'.pc = "createRun"]_vars
C36_Witness ==
  /\ collector.count = MaxCollections
  /\ collector.pc = "logStart"
  /\ collector.refused = 1
  /\ Len(trendRunRows) = MaxCollections
  /\ trendRunRows[1].status = "failed"
  /\ trendRunRows[MaxCollections].status = "running"

\* --------------------------------------------------------- completed status
\* A stage collaborator call of job j has not settled.
StageInFlight(j) ==
  j \in DOMAIN calls /\ \E i \in 1..Len(calls[j]) : calls[j][i].result = "inflight"
\* A stage collaborator of job j is called in this step.
StageInvoked(j) ==
  j \in DOMAIN calls' /\ (j \notin DOMAIN calls \/ Len(calls'[j]) > Len(calls[j]))

\* C37: while the persisted status of a job is completed, no stage
\* collaborator call of that job is in flight and none is made any more.
C37_CompletedAfterAllStages ==
  /\ [](\A j \in JobIds : jobs[j].status = "completed" => ~StageInFlight(j))
  /\ [][\A j \in JobIds : jobs[j].status = "completed" => ~StageInvoked(j)]_vars

\* ------------------------------------------------------------ rejected jobs
\* A createVideoJob call that rejected after its job row was created.
RejectedWithJob(run) ==
  run.kind = "createVideoJob" /\ run.pc = "thrown" /\ run.jobId # 0
\* The progress entry of job j, while there is one, says failed at 0 percent.
ProgressShowsFailed(j) ==
  j \in DOMAIN activeJobs =>
    activeJobs[j].currentStep = "failed" /\ activeJobs[j].progress = 0

\* C39: when createVideoJob rejects for a job whose row was created, the
\* job's progress entry shows failed at 0 percent, its persisted status is
\* failed, and the error thrown is the one of the stage that failed, also
\* when the storage write that records the failure is rejected.
C39_RejectedJobRecordedFailed ==
  \A r \in RunIds :
    RejectedWithJob(runs[r]) =>
      /\ ProgressShowsFailed(runs[r].jobId)
      /\ jobs[runs[r].jobId].status = "failed"
      /\ SomeCallFailed(runs[r].jobId) => runs[r].error \in ErrorValues

\* ----------------------------------------------------------- selected topic
\* The topics of the run that have a keyword.
KeywordTopics(c) ==
  {c.allTopics[i] : i \in {k \in 1..Len(c.allTopics) : c.allTopics[k].keyword # ""}}

\* C40: the selected topic has the highest finalScore of all the topics of
\* the run that have a keyword, and there is none only when no topic of the
\* run has a keyword.
C40_SelectsHighestOfAllTopics ==
  Discovered(collector) =>
    /\ \A t \in KeywordTopics(collector) :
         ScoreOf(t) <= ScoreOf(collector.selectedTopic)
    /\ collector.selectedTopic = NoTopic <=> KeywordTopics(collector) = {}

\* ----------------------------------------------------------------- triggers
\* The trend runs whose row says running.
RunningTrendRuns == {i \in 1..Len(trendRunRows) : trendRunRows[i].status = "running"}
\* A collectTrends call of the collector of admin/routes/api.ts is in progress.
ApiCollectionInProgress == apiCollector.pc \in {"createRun", "discoverTrends"}

\* C38: whichever trigger starts them, two trend discovery runs never
\* overlap, and no two trend runs are in status running at once.
C38_OneDiscoveryRunAtATime ==
  /\ ~(CollectionInProgress /\ ApiCollectionInProgress)
  /\ Cardinality(RunningTrendRuns) <= 1

\* -------------------------------------------------------------- retry loops
\* The attempts that led to no usable response.
FailedAttempts == {i \in 1..Len(retrying.attempts) : retrying.attempts[i] \notin ApiResults}
\* The API was called between any two waits, and after the last one.
WaitsBetweenAttempts ==
  \A i \in 1..Len(retrying.waits) :
    /\ retrying.waits[i].after = i
    /\ retrying.waits[i].delay = BackoffDelay(i)
    /\ i < MaxRetries
    /\ retrying.pc \in {"returned", "thrown"} => Len(retrying.attempts) > i

\* C35: a collaborator's retry loop calls its API at most 3 times per call;
\* it returns the result of the first attempt that succeeds and makes no
\* attempt after it; after 3 failed attempts it throws the error of the last
\* one; it waits only between two attempts, never after the last failed one.
C35_RetryLoopMakesThreeAttempts ==
  /\ Len(retrying.attempts) <= MaxRetries
  /\ WaitsBetweenAttempts
  /\ retrying.pc = "returned" =>
       /\ FailedAttempts = 1..(Len(retrying.attempts) - 1)
       /\ retrying.result = retrying.attempts[Len(retrying.attempts)]
       /\ Len(retrying.waits) = Len(retrying.attempts) - 1
  /\ retrying.pc = "thrown" =>
       /\ FailedAttempts = 1..MaxRetries
       /\ retrying.error =
            ErrorOfAttempt(retrying.service, retrying.attempts[MaxRetries])
       /\ Len(retrying.waits) = MaxRetries - 1
  /\ retrying.pc \in {"call", "backoff"} =>
       /\ FailedAttempts = 1..Len(retrying.attempts)
       /\ Len(retrying.attempts) < MaxRetries
C35_Witness ==
  /\ retrying.pc = "thrown"
  /\ retrying.service = "upload"
  /\ retrying.attempts = <<"rejected1", "rejected2", "unusable">>
  /\ retrying.error = "No video ID returned from YouTube API"
  /\ retrying.waits = <<[delay |-> 2000, after |-> 1], [delay |-> 4000, after |-> 2]>>

\* ------------------------------------------------------------ normalization
\* C31: normalizing a normalized keyword returns it unchanged.
C31_NormalizeIdempotent ==
  normalization.pc = "returned" => normalization.twice = normalization.once
C31_Witness ==
  /\ normalization.pc = "returned"
  /\ normalization.keyword = <<"!", " ", "U+0130">>
  /\ normalization.once = <<"i">>
  /\ normalization.twice = <<"i">>

====
